---- MODULE Spec2Model ----
(***************************************************************************)
(* Model of the download-proxy subsystem of yt-downloader:                 *)
(*   - the buffered download route v5.1.0 (POST, executeDownload),         *)
(*   - the v5.1.0 credential cache and helpers of lib/yt-dlp-utils.ts,     *)
(*   - the in-memory rate limiter of lib/ytdlp.ts,                         *)
(*   - the progress store of lib/progress-store.ts,                        *)
(*   - the history table operations of lib/db/index.ts,                    *)
(*   - the streaming download route v5.3.0 (POST, DELETE) and the v5.3.0   *)
(*     credential cache of lib/yt-dlp-utils.ts,                            *)
(*   - parseFormats / getCombinedFormats of lib/ytdlp.ts and               *)
(*     youtubeUrlSchema of lib/types.ts.                                   *)
(* Percentages are kept in tenths of a percent (85 % is 850), so that the  *)
(* 0.85 scaling of parseProgress stays in the integers.  Time is in        *)
(* seconds.                                                                *)
(***************************************************************************)
EXTENDS Integers, Sequences, FiniteSets, TLC

\* ------------------------------------------------------------------ bounds
MaxTime == 150        \* the clock stops advancing here
TimeStep == 30        \* seconds added by one Tick
MaxArrivals == 12     \* download requests one client sends in RateSpec
MaxAppends == 103     \* addHistoryEntry calls in HistSpec
MaxCalls == 4         \* getCachedCookies calls in CacheSpec
MaxDeletes == 2       \* DELETE calls in StreamSpec
MaxFormats == 2       \* entries of a raw format list in FormatSpec
MaxPolls == 4         \* polling callbacks of one progress channel

\* -------------------------------------------------------- program constants
MAX_RETRIES == 3            \* route.ts:175
RATE_LIMIT == 10            \* ytdlp.ts:552
RATE_WINDOW == 60           \* ytdlp.ts:553 (60 * 1000 ms)
COOKIES_CACHE_TTL == 30     \* yt-dlp-utils.ts:537 (30 * 1000 ms)
HISTORY_KEEP == 100         \* db/index.ts:244-245
HISTORY_SCAN == 1000
COOKIES_CACHE_TTL53 == 120        \* db/index.ts:281

Min(a, b) == IF a <= b THEN a ELSE b

\* A percentage in the model's unit (tenths of a percent).
Pct(n) == n * 10

\* ------------------------------------------------ types.ts: youtubeUrlSchema
\* A candidate string is scheme + www + host + path + tail, each part taken
\* from the sets below ("" for a part that is missing).
UrlSchemes == {"", "https://", "http://", "ftp://"}
UrlWww == {"", "www."}
UrlHosts == {"", "youtube.com", "YouTube.com", "youtu.be", "music.youtube.com",
             "vimeo.com", "google.com", "youtube", "not a url"}
UrlPaths == {"", "/", "/watch?v=", "/shorts/", "/playlist?list=", "/embed/", "/v/",
             "/channel/"}
UrlTails == {"", "dQw4w9WgXcQ", "dQw4 w9WgXcQ"}

UrlStrings ==
    [scheme : UrlSchemes, www : UrlWww, host : UrlHosts, path : UrlPaths, tail : UrlTails]

\* The /i flag: the host in lower case.
lowerCase(host) == IF host = "YouTube.com" THEN "youtube.com" ELSE host

\* youtubeRegex.test(url): ^(https?://)?(www\.)? then youtube.com/ with one
\* of its five path prefixes, or youtu.be/, or music.youtube.com/watch?v=,
\* then .+ (one more character at least; no end anchor).
youtubeRegex(u) ==
    LET host == lowerCase(u.host)
        pathBelowRoot == u.path \notin {"", "/"}
    IN  /\ u.scheme \in {"", "https://", "http://"}
        /\ \/ /\ host = "youtube.com"
              /\ u.path \in {"/watch?v=", "/embed/", "/v/", "/shorts/", "/playlist?list="}
              /\ u.tail # ""
           \/ /\ host = "youtu.be"
              /\ u.path # ""
              /\ pathBelowRoot \/ u.tail # ""
           \/ /\ host = "music.youtube.com"
              /\ u.path = "/watch?v="
              /\ u.tail # ""

youtubeUrlSchema(u) == youtubeRegex(u)

\* ------------------------------------------------------------ value spaces
IPs == {"ip1", "ip2"}
GoodUrl == "https://www.youtube.com/watch?v=abc"
BadUrl == "https://example.com/video"
Urls == {GoodUrl, BadUrl}

\* A URL of the supported site whose identifier holds white space.
MalformedUrl == "https://www.youtube.com/watch?v=dQw4 w9WgXcQ"

\* The parts of the URLs above.
urlParts(url) ==
    CASE url = GoodUrl ->
             [scheme |-> "https://", www |-> "www.", host |-> "youtube.com",
              path |-> "/watch?v=", tail |-> "abc"]
      [] url = MalformedUrl ->
             [scheme |-> "https://", www |-> "www.", host |-> "youtube.com",
              path |-> "/watch?v=", tail |-> "dQw4 w9WgXcQ"]
      [] OTHER ->
             [scheme |-> "https://", www |-> "", host |-> "example.com",
              path |-> "/video", tail |-> ""]

\* formatRequestSchema: z.object({ url: youtubeUrlSchema, formatId: min(1) }).
formatRequestSchema(url, formatId) == youtubeUrlSchema(urlParts(url)) /\ formatId # ""

RequestFormats == {"bestvideo+bestaudio", "best[height<=720]", "best[height<=360]", ""}

\* DEFAULT_DOWNLOAD_CONFIG.fallbackFormats
fallbackFormats == << "best[height<=720]", "best[height<=480]", "best[ext=mp4]", "best" >>

\* getFallbackFormat(attempt, originalFormat); the source's 0-based index
\* Math.min(attempt - 1, length - 1) is the 1-based Min(attempt, length).
getFallbackFormat(attempt, originalFormat) ==
    IF attempt = 0 THEN originalFormat
    ELSE fallbackFormats[Min(attempt, Len(fallbackFormats))]

\* Files on disk: a kind (the file-name prefix) and a unique serial standing
\* for the timestamp / random part of the name.
NoFile == [kind |-> "none", n |-> 0]
File(kind, n) == [kind |-> kind, n |-> n]

\* Correlation ids: the client's, or the server-generated downloadId.
ClientId == << "client", 1 >>
ServerId(n) == << "srv", n >>
NoId == << "none", 0 >>

\* ------------------------------------------------------------ stderr lines
\* One stderr chunk of the extractor: its kind and, for "[download] NN%",
\* the percentage.
Line(kind, pct) == [kind |-> kind, pct |-> pct]
ProgressLines == { Line("youtube", 0), Line("download", 10),
                   Line("download", 50), Line("download", 100) }
DiagLines == { Line("err_bot", 0), Line("err_unavailable", 0), Line("err_frag", 0) }
StderrLines == ProgressLines \cup DiagLines

\* What a chunk adds to errorOutput: the diagnostic it carries, or plain
\* progress text.
outputText(line) == IF line \in DiagLines THEN line.kind ELSE "progress"

NoProgress == -1

\* parseProgress(text): the progress of the first matching marker, or null.
parseProgress(line) ==
    CASE line.kind = "download" -> Min((line.pct * 85) \div 10, Pct(85))
      [] line.kind = "merger" -> Pct(88)
      [] line.kind = "destination" -> Pct(5)
      [] line.kind = "youtube" -> Pct(2)
      [] OTHER -> NoProgress

parsePhase(line) ==
    CASE line.kind = "download" -> "downloading"
      [] line.kind = "merger" -> "merging"
      [] line.kind = "destination" -> "downloading"
      [] line.kind = "youtube" -> "extracting"
      [] OTHER -> "none"

\* errorOutput is the set of texts the chunks added.
\* isBotDetectionError({message: errorOutput}): a blocking phrase occurs.
isBotDetectionError(errorOutput) == "err_bot" \in errorOutput

\* getErrorMessage({message: errorOutput})
getErrorMessage(errorOutput) ==
    IF isBotDetectionError(errorOutput) THEN "YouTube detected bot activity."
    ELSE IF "err_unavailable" \in errorOutput
         THEN "This video is unavailable or has been removed."
    ELSE IF errorOutput = {} THEN "Download failed"
    ELSE "raw extractor output"

\* isCorruptionError / isTimeoutError on the messages above: none of them
\* holds a corruption or a timeout indicator.
isCorruptionError(msg) == msg \in {"File is corrupt", "Invalid data found"}
isTimeoutError(msg) == msg \in {"Download timed out", "Connection timeout - server not responding"}

\* ------------------------------------------------------------------ results
Result(success, error, bot, corruption, timeout) ==
    [success |-> success, error |-> error, isBotDetection |-> bot,
     isCorruption |-> corruption, isTimeout |-> timeout]

\* executeDownload's close handler after the timeout check (lines 585-629):
\* the outcome by diagnostics, exit code and output file.
Classify(errorOutput, code, file) ==
    IF isBotDetectionError(errorOutput)
    THEN Result(FALSE, "Bot detection", TRUE, FALSE, FALSE)
    ELSE IF "err_frag" \in errorOutput
    THEN Result(FALSE, "Fragment download error", FALSE, TRUE, FALSE)
    ELSE IF code # 0
    THEN Result(FALSE, getErrorMessage(errorOutput), FALSE,
                isCorruptionError(getErrorMessage(errorOutput)),
                isTimeoutError(getErrorMessage(errorOutput)))
    ELSE IF file = "none"
    THEN Result(FALSE, "File not found", FALSE, TRUE, FALSE)
    ELSE IF file = "invalid"
    THEN Result(FALSE, "Video may be corrupted", FALSE, TRUE, FALSE)
    ELSE Result(TRUE, "", FALSE, FALSE, FALSE)

\* -------------------------------------------------------- timeout controller
\* createTimeoutController: the isAborted flag and whether the timer is armed.
createTimeoutController == [isAborted |-> FALSE, armed |-> TRUE]

\* controller.abort(): clears the timer and sets isAborted.
tcAbort(c) == [isAborted |-> TRUE, armed |-> FALSE]

\* the timer callback: sets isAborted (and calls onTimeout).
tcExpire(c) == [isAborted |-> TRUE, armed |-> FALSE]

\* ------------------------------------------------------------ progress store
NewSnapshot ==
    [progress |-> 0, message |-> "Initializing...", phase |-> "preparing",
     error |-> "", completed |-> FALSE, fileReady |-> FALSE]

SnapshotFields == DOMAIN NewSnapshot

updateProgress_Replaces(store, id, data) ==
    LET merged == [f \in SnapshotFields |->
                      IF f \in DOMAIN data THEN data[f] ELSE NewSnapshot[f]]
    IN  [k \in DOMAIN store \cup {id} |-> IF k = id THEN merged ELSE store[k]]

\* updateProgress(downloadId, data): data is a record holding some of the
\* snapshot's fields; the others keep their value ({...existing, ...data}).
updateProgress(store, id, data) ==
    LET existing == IF id \in DOMAIN store THEN store[id] ELSE NewSnapshot
        merged == [f \in SnapshotFields |->
                      IF f \in DOMAIN data THEN data[f] ELSE existing[f]]
    IN  [k \in DOMAIN store \cup {id} |-> IF k = id THEN merged ELSE store[k]]

\* clearProgress(downloadId)
clearProgress(store, id) == [k \in DOMAIN store \ {id} |-> store[k]]

\* ---------------------------------------------------------------- rate limit
\* checkRateLimit(ip): does the call start a new window?
rateWindowStarts(map, ip, t) == ip \notin DOMAIN map \/ t > map[ip].resetTime

checkRateLimit_OffByOne(map, ip, t) ==
    rateWindowStarts(map, ip, t) \/ ~(map[ip].count > RATE_LIMIT)

\* checkRateLimit(ip): the returned verdict.
checkRateLimit(map, ip, t) ==
    rateWindowStarts(map, ip, t) \/ ~(map[ip].count >= RATE_LIMIT)

rateLimitAfter_CountsRejected(map, ip, t) ==
    IF rateWindowStarts(map, ip, t)
    THEN [k \in DOMAIN map \cup {ip} |->
             IF k = ip THEN [count |-> 1, resetTime |-> t + RATE_WINDOW] ELSE map[k]]
    ELSE [map EXCEPT ![ip].count = @ + 1]

\* checkRateLimit(ip): the map after the call.
rateLimitAfter(map, ip, t) ==
    IF rateWindowStarts(map, ip, t)
    THEN [k \in DOMAIN map \cup {ip} |->
             IF k = ip THEN [count |-> 1, resetTime |-> t + RATE_WINDOW] ELSE map[k]]
    ELSE IF map[ip].count >= RATE_LIMIT THEN map
    ELSE [map EXCEPT ![ip].count = @ + 1]

\* ------------------------------------------------------------------- history
\* getHistory(limit, offset): ORDER BY created_at DESC; rows of equal
\* created_at come out in rowid order.  The table is kept in insertion
\* order, so its created_at values never decrease along the sequence.
RECURSIVE historyByCreatedAtDesc(_)
historyByCreatedAtDesc(h) ==
    IF h = << >> THEN << >>
    ELSE LET t == h[Len(h)].createdAt
             newest == SelectSeq(h, LAMBDA r : r.createdAt = t)
             older == SelectSeq(h, LAMBDA r : r.createdAt # t)
         IN  newest \o historyByCreatedAtDesc(older)

getHistory(h, limit, offset) ==
    LET all == historyByCreatedAtDesc(h)
    IN  SubSeq(all, offset + 1, Min(Len(all), offset + limit))

getHistoryCount(h) == Len(h)

\* pruneHistory(keepCount): delete the rows listed beyond keepCount.
pruneHistory(h, keepCount) ==
    LET entries == getHistory(h, HISTORY_SCAN, 0)
        toDelete == IF Len(entries) > keepCount
                    THEN { entries[i].id : i \in (keepCount + 1)..Len(entries) }
                    ELSE {}
    IN  SelectSeq(h, LAMBDA r : r.id \notin toDelete)

\* The row addHistoryEntry inserts (format || null and error || null are "").
HistoryRow(id, entry, t) ==
    [id |-> id, url |-> entry.url, format |-> entry.format,
     success |-> entry.success, error |-> entry.error, createdAt |-> t]

addHistoryEntry_Twice(h, id, entry, t) ==
    Append(Append(h, HistoryRow(id, entry, t)), HistoryRow(id + 1, entry, t))

\* addHistoryEntry(entry): prune when the count has reached the retention
\* count, then insert.
addHistoryEntry(h, id, entry, t) ==
    LET pruned == IF getHistoryCount(h) >= HISTORY_KEEP
                  THEN pruneHistory(h, HISTORY_KEEP) ELSE h
    IN  Append(pruned, HistoryRow(id, entry, t))

\* -------------------------------------------------------------- cookie cache
EmptyCache == [content |-> "", lastFetch |-> 0, tempPath |-> NoFile, isValid |-> FALSE]

\* isCookiesCacheValid()
isCookiesCacheValid(cache, t) ==
    /\ cache.isValid
    /\ cache.content # ""
    /\ ~(t - cache.lastFetch > COOKIES_CACHE_TTL)

\* getCachedCookies(forceRefresh): is the cached bundle returned?
cacheHit(cache, files, forceRefresh, t) ==
    /\ ~forceRefresh
    /\ isCookiesCacheValid(cache, t)
    /\ cache.tempPath # NoFile
    /\ cache.tempPath \in files

\* invalidateCookiesCache()
invalidateCookiesCache(cache) == [cache EXCEPT !.isValid = FALSE]

\* getCachedCookies(forceRefresh) with the outbound fetch succeeding or not:
\* the returned bundle, the cache and the disk after the call.  serial names
\* the temp file a fetch or a fallback writes.
getCachedCookies(cache, files, forceRefresh, t, fetchOk, serial) ==
    IF cacheHit(cache, files, forceRefresh, t)
    THEN [tempPath |-> cache.tempPath, fromCache |-> TRUE, usedFallback |-> FALSE,
          fetched |-> FALSE, cache |-> cache, disk |-> files]
    ELSE IF fetchOk
    THEN [tempPath |-> File("cached_cookies", serial), fromCache |-> FALSE,
          usedFallback |-> FALSE, fetched |-> TRUE,
          cache |-> [content |-> "netscape", lastFetch |-> t,
                     tempPath |-> File("cached_cookies", serial), isValid |-> TRUE],
          disk |-> (files \ {cache.tempPath}) \cup {File("cached_cookies", serial)}]
    ELSE [tempPath |-> File("fallback_cookies", serial), fromCache |-> FALSE,
          usedFallback |-> TRUE, fetched |-> TRUE, cache |-> cache,
          disk |-> files \cup {File("fallback_cookies", serial)}]

\* deleteTempFile(filePath)
deleteTempFile(files, f) == files \ {f}

\* ===================================================================== state
VARIABLES
    now,                    \* Date.now(), in seconds
    rateLimitMap,           \* ytdlp.ts rateLimitMap: ip -> {count, resetTime}
    cookiesCache,           \* yt-dlp-utils.ts cookiesCache
    disk,                   \* the temp files that exist
    nextFile,               \* serial of the next temp-file name
    downloadProgressStore,  \* progress-store.ts: correlation id -> snapshot
    history,                \* the history table, in insertion order
    nextRowId,              \* the table's AUTOINCREMENT id
    activeDownloads,        \* route.ts activeDownloads: downloadId -> entry
    req,                    \* the locals of the POST call being served
    procs,                  \* the extractor processes of this request, by attempt
    log,                    \* what the request did so far (observation only)
    arrivals,               \* the download requests received (observation only)
    stream,                 \* the streaming route: its POST call, process and response
    calls,                  \* the getCachedCookies (v5.3.0) calls and their cache
    probe,                  \* the argument and result of a pure function under test
    notifier,               \* the download-progress SSE channel and its timers
    proxies,                \* yt-dlp-utils.ts proxyList, the environment and the last pick
    downloads               \* concurrent streaming downloads and their activeDownloads table

\* The state of the streaming route, of the v5.3.0 cookie cache, of the
\* pure functions and of the progress channel: untouched by the buffered route.
extraVars == << stream, calls, probe, notifier, proxies, downloads >>

vars == << now, rateLimitMap, cookiesCache, disk, nextFile, downloadProgressStore,
           history, nextRowId, activeDownloads, req, procs, log, arrivals, extraVars >>

IdleReq ==
    [pc |-> "idle", downloadId |-> 0, ip |-> "", url |-> "", requestedFormatId |-> "",
     clientDownloadId |-> NoId, tempFile |-> NoFile, currentCookiePath |-> NoFile,
     attempt |-> 0, formatId |-> "", forceRefreshCookies |-> FALSE,
     lastError |-> "", lastIsBotDetection |-> FALSE, lastIsCorruption |-> FALSE,
     usedFallback |-> FALSE, response |-> "none"]

EmptyLog ==
    [spawns |-> 0, fetches |-> 0, acquires |-> << >>, formats |-> << >>,
     runs |-> << >>, created |-> {}]

\* The closure of one executeDownload call.
NewProc(tempFile) ==
    [status |-> "running", tempFile |-> tempFile, receivedData |-> FALSE,
     lastProgress |-> 0, errorOutput |-> {},
     tc |-> createTimeoutController, resolved |-> FALSE]

\* The closure of an executeDownload call whose process is gone: nothing of
\* it is read again.
ClosedProc ==
    [status |-> "closed", tempFile |-> NoFile, receivedData |-> FALSE,
     lastProgress |-> 0, errorOutput |-> {},
     tc |-> tcAbort(createTimeoutController), resolved |-> TRUE]

\* The name of an outcome.
outcomeOf(result, errorOutput) ==
    IF result.success THEN "success"
    ELSE IF result.isBotDetection THEN "bot"
    ELSE IF result.isCorruption THEN "corruption"
    ELSE IF result.isTimeout THEN "timeout"
    ELSE IF "err_unavailable" \in errorOutput THEN "unavailable"
    ELSE "other"

\* One attempt as observed from outside: how the extractor run ended ("exit"
\* by itself, killed by the "watchdog", killed by the "connect" timeout, or
\* "spawn_error"), whether its stderr held progress text only, the outcome
\* its exit code, diagnostics and output file amount to, and the outcome
\* executeDownload resolved with.
Run(end, code, file, errorOutput, result) ==
    [end |-> end,
     clean |-> errorOutput \subseteq {"progress"},
     actual |-> CASE end = "exit" -> outcomeOf(Classify(errorOutput, code, file), errorOutput)
                  [] end = "spawn_error" -> "fatal"
                  [] OTHER -> "timeout",
     resolved |-> IF end = "spawn_error" THEN "fatal" ELSE outcomeOf(result, errorOutput)]

EmptyMap == [k \in {} |-> 0]

\* ------------------------------------------- the streaming route (v5.3.0)
\* The extractor process of the streaming request: whether process.killed
\* is set, the signals sent to it, and whether it ignores SIGTERM.
NoStreamProc == [status |-> "none", killed |-> FALSE, signals |-> {}, stubborn |-> FALSE]

\* The locals of the streaming POST call and of its ReadableStream, the
\* route's activeDownloads table, how the extractor ended, and the DELETE
\* calls answered so far.
IdleStream ==
    [pc |-> "idle", downloadId |-> NoId, clientDownloadId |-> NoId, progressId |-> NoId,
     url |-> "", response |-> "none", header |-> NoId, cookiePath |-> NoFile,
     responseStarted |-> FALSE, controller |-> "none", interval |-> FALSE,
     lastProgress |-> 0, errorOutput |-> {}, proc |-> NoStreamProc, exit |-> "none",
     enqueueFailed |-> FALSE, uncaught |-> FALSE, activeDownloads |-> EmptyMap,
     deleteLog |-> << >>, historyFailed |-> FALSE, reported |-> "none"]

\* ------------------------------------ yt-dlp-utils.ts v5.3.0: the cookie cache
EmptyCache53 == [content |-> "", lastFetch |-> 0, tempPath |-> NoFile, isValid |-> FALSE]

\* What getCachedCookies returns; `raised` stands for a rejected promise.
Bundle(content, tempPath, fromCache, usedFallback) ==
    [content |-> content, tempPath |-> tempPath, fromCache |-> fromCache,
     usedFallback |-> usedFallback, raised |-> FALSE]

NoBundle == Bundle("", NoFile, FALSE, FALSE)

\* The getCachedCookies calls: the module's cache, the number of calls whose
\* fetch is in flight, the number of calls made, whether invalidate() was
\* called after the last call began, and the last call step observed.
IdleCalls ==
    [cache |-> EmptyCache53, inflight |-> 0, seq |-> 0, dirty |-> FALSE,
     last |-> [kind |-> "none", forceRefresh |-> FALSE, afterInvalidate |-> FALSE,
               fetchOk |-> FALSE, result |-> NoBundle]]

\* No proxy configured, none in the environment, none picked.
NoProxy == [scheme |-> "", host |-> ""]
\* The proxy module before anything called it: the list is empty, nothing
\* was picked, the admin panel has configured nothing.
NoProxies ==
    [env |-> << >>, list |-> << >>, picked |-> NoProxy, byAdmin |-> FALSE, op |-> "none"]

\* The streaming downloads that run side by side.
SharedIds == {ServerId(1), ServerId(2)}

\* No streaming download was requested: the route's activeDownloads table
\* is empty; of each download its position, its extractor process, its
\* keep-alive timer and the file its extractor was given as --cookies.
NoDownloads ==
    [table |-> EmptyMap,
     of |-> [d \in SharedIds |->
                [pc |-> "idle", proc |-> NoStreamProc, interval |-> FALSE,
                 cookies |-> NoFile]]]

\* No progress channel is open and none of its timers is armed.
IdleNotifier ==
    [pc |-> "none", id |-> NoId, response |-> "none", controller |-> "none",
     isActive |-> FALSE, interval |-> FALSE, capTimer |-> FALSE, deleteTimers |-> 0,
     aborted |-> FALSE, polls |-> 0, frames |-> 0, first |-> "none", last |-> "none",
     timeouts |-> 0]

Init ==
    /\ now = 0
    /\ rateLimitMap = EmptyMap
    /\ cookiesCache = EmptyCache
    /\ disk = {}
    /\ nextFile = 1
    /\ downloadProgressStore = EmptyMap
    /\ history = << >>
    /\ nextRowId = 1
    /\ activeDownloads = EmptyMap
    /\ req = IdleReq
    /\ procs = << >>
    /\ log = EmptyLog
    /\ arrivals = << >>
    /\ stream = IdleStream
    /\ calls = IdleCalls
    /\ probe = << >>
    /\ notifier = IdleNotifier
    /\ proxies = NoProxies
    /\ downloads = NoDownloads

\* ------------------------------------------------------- POST: the retry loop
\* lastError.includes('403') / includes('429'): the error texts that carry an
\* HTTP status.
includesHttpStatus(err) == err \in {"HTTP Error 403: Forbidden", "HTTP Error 429"}

hasNextAttempt_OffByOne(attempt) == attempt <= MAX_RETRIES

\* The loop condition for the attempt after `attempt`.
hasNextAttempt(attempt) == attempt + 1 <= MAX_RETRIES

\* if (!lastIsBotDetection && !lastIsCorruption && !result.isTimeout) break;
isRetryable(result) == result.isBotDetection \/ result.isCorruption \/ result.isTimeout

\* Top of the loop body for attempt a, up to the await of getCachedCookies
\* (route.ts 691-711).
BeginAttempt(r, store, a) ==
    LET cid == r.clientDownloadId
        fallback == a > 1 /\ r.lastIsCorruption
        fmt == IF fallback THEN getFallbackFormat(a - 1, r.requestedFormatId)
               ELSE r.requestedFormatId
        force == r.lastIsBotDetection \/ (a > 1 /\ includesHttpStatus(r.lastError))
        s1 == IF fallback
              THEN updateProgress(store, cid,
                       [progress |-> Pct(2), message |-> "Retrying with safer format...",
                        phase |-> "preparing"])
              ELSE store
        s2 == updateProgress(s1, cid,
                  [progress |-> IF a = 1 THEN Pct(1) ELSE Pct(3),
                   message |-> IF force THEN "Fetching fresh cookies..."
                               ELSE "Preparing download...",
                   phase |-> "preparing"])
    IN  [req |-> [r EXCEPT !.pc = "cookies", !.attempt = a, !.formatId = fmt,
                           !.usedFallback = @ \/ fallback,
                           !.forceRefreshCookies = force],
         store |-> s2]

\* The code after the loop (route.ts 817-863): error snapshot, failure
\* history entry, cleanup, error response.
FailRequest(r, files, store, h, rowId, t) ==
    LET userError ==
            IF r.lastIsCorruption
            THEN "Video file was corrupted during download. Please try a lower quality format."
            ELSE IF r.lastIsBotDetection
            THEN "YouTube blocked the request. Please try again later."
            ELSE r.lastError
    IN  [req |-> [r EXCEPT !.pc = "done",
                           !.response = IF r.lastIsBotDetection THEN "403" ELSE "500"],
         disk |-> deleteTempFile(files, r.tempFile),
         store |-> updateProgress(store, r.clientDownloadId,
                       [progress |-> 0, message |-> userError, phase |-> "error",
                        error |-> userError, completed |-> FALSE]),
         history |-> addHistoryEntry(h, rowId,
                         [url |-> r.url, format |-> r.requestedFormatId,
                          success |-> FALSE, error |-> r.lastError], t)]

\* The success branch (route.ts 745-796).
SucceedRequest(r, files, store, h, rowId, t) ==
    LET s1 == updateProgress(store, r.clientDownloadId,
                  [progress |-> Pct(95), message |-> "Preparing file for transfer...",
                   phase |-> "processing"])
    IN  [req |-> [r EXCEPT !.pc = "done", !.response = "media"],
         disk |-> deleteTempFile(files, r.tempFile),
         store |-> updateProgress(s1, r.clientDownloadId,
                       [progress |-> Pct(100), message |-> "Complete!",
                        phase |-> "complete", completed |-> TRUE, fileReady |-> TRUE]),
         history |-> addHistoryEntry(h, rowId,
                         [url |-> r.url, format |-> r.formatId,
                          success |-> TRUE, error |-> ""], t)]

\* POST from the resolution of executeDownload to its next await or its
\* return (route.ts 745-863).  serial names the next temp-file path.
AfterAttempt(r, result, files, serial, cache, store, h, rowId, t) ==
    IF result.success
    THEN LET f == SucceedRequest(r, files, store, h, rowId, t)
         IN  [req |-> f.req, disk |-> f.disk, store |-> f.store, history |-> f.history,
              nextRowId |-> rowId + 1, cache |-> cache, nextFile |-> serial]
    ELSE LET r1 == [r EXCEPT !.lastError = IF result.error = "" THEN "Unknown error"
                                           ELSE result.error,
                             !.lastIsBotDetection = result.isBotDetection,
                             !.lastIsCorruption = result.isCorruption]
             cache1 == IF r1.lastIsBotDetection \/ includesHttpStatus(r1.lastError)
                       THEN invalidateCookiesCache(cache) ELSE cache
             files1 == deleteTempFile(files, r.tempFile)
             r2 == [r1 EXCEPT !.tempFile = File("download", serial)]
         IN  IF isRetryable(result) /\ hasNextAttempt(r.attempt)
             THEN LET b == BeginAttempt(r2, store, r.attempt + 1)
                  IN  [req |-> b.req, disk |-> files1, store |-> b.store,
                       history |-> h, nextRowId |-> rowId, cache |-> cache1,
                       nextFile |-> serial + 1]
             ELSE LET f == FailRequest(r2, files1, store, h, rowId, t)
                  IN  [req |-> f.req, disk |-> f.disk, store |-> f.store,
                       history |-> f.history, nextRowId |-> rowId + 1,
                       cache |-> cache1, nextFile |-> serial + 1]

\* Map.delete / Map.set on activeDownloads
mapDelete(m, k) == [x \in DOMAIN m \ {k} |-> m[x]]
mapSet(m, k, v) == [x \in DOMAIN m \cup {k} |-> IF x = k THEN v ELSE m[x]]

\* =================================================================== actions
\* The clock advances.
Tick ==
    /\ now + TimeStep <= MaxTime
    /\ now' = now + TimeStep
    /\ UNCHANGED << extraVars, rateLimitMap, cookiesCache, disk, nextFile, downloadProgressStore,
                    history, nextRowId, activeDownloads, req, procs, log, arrivals >>

\* ytdlp.ts setInterval handler: expired rate-limit records are dropped.
RateCleanup ==
    /\ \E ip \in DOMAIN rateLimitMap : now > rateLimitMap[ip].resetTime
    /\ rateLimitMap' = [ip \in { k \in DOMAIN rateLimitMap : ~(now > rateLimitMap[k].resetTime) }
                           |-> rateLimitMap[ip]]
    /\ UNCHANGED << extraVars, now, cookiesCache, disk, nextFile, downloadProgressStore,
                    history, nextRowId, activeDownloads, req, procs, log, arrivals >>

\* POST /api/download from the request's arrival to the first await of
\* getCachedCookies, or to the early 429 / 400 return (route.ts 637-711).
\* cid is the body's downloadId (NoId when the client sent none).
Receive(ip, url, fmt, cid) ==
    /\ req.pc = "idle"
    /\ LET id == req.downloadId + 1
           ok == checkRateLimit(rateLimitMap, ip, now)
           base == [IdleReq EXCEPT !.downloadId = id, !.ip = ip, !.url = url,
                                   !.requestedFormatId = fmt]
           r0 == [base EXCEPT !.clientDownloadId = IF cid = NoId THEN ServerId(id) ELSE cid,
                              !.tempFile = File("download", nextFile)]
           s0 == updateProgress(downloadProgressStore, r0.clientDownloadId,
                     [progress |-> 0, message |-> "Fetching cookies...",
                      phase |-> "preparing"])
           b == BeginAttempt(r0, s0, 1)
       IN  /\ rateLimitMap' = rateLimitAfter(rateLimitMap, ip, now)
           /\ arrivals' = Append(arrivals, [ip |-> ip, t |-> now, ok |-> ok])
           /\ IF ~ok
              THEN /\ req' = [base EXCEPT !.pc = "done", !.response = "429"]
                   /\ UNCHANGED << downloadProgressStore, nextFile >>
              ELSE IF ~formatRequestSchema(url, fmt)
              THEN /\ req' = [base EXCEPT !.pc = "done", !.response = "400"]
                   /\ UNCHANGED << downloadProgressStore, nextFile >>
              ELSE /\ req' = b.req
                   /\ downloadProgressStore' = b.store
                   /\ nextFile' = nextFile + 1
    /\ UNCHANGED << extraVars, now, cookiesCache, disk, history, nextRowId, activeDownloads,
                    procs, log >>

\* The response was sent and the extractors of the request are gone: the
\* server waits for the next download request.
NextRequest ==
    /\ req.pc = "done"
    /\ Len(arrivals) < MaxArrivals
    /\ \A i \in DOMAIN procs : procs[i].status = "closed"
    /\ req' = [IdleReq EXCEPT !.downloadId = req.downloadId]
    /\ procs' = << >>
    /\ log' = EmptyLog
    /\ UNCHANGED << extraVars, now, rateLimitMap, cookiesCache, disk, nextFile, downloadProgressStore,
                    history, nextRowId, activeDownloads, arrivals >>

\* getCachedCookies resolves; POST goes on to executeDownload, which spawns
\* the extractor and registers it (route.ts 713-743, 486-513).
AcquireCookies(fetchOk) ==
    /\ req.pc = "cookies"
    /\ LET c == getCachedCookies(cookiesCache, disk, req.forceRefreshCookies, now,
                                 fetchOk, nextFile)
       IN  /\ cookiesCache' = c.cache
           /\ disk' = c.disk
           /\ nextFile' = IF c.fetched THEN nextFile + 1 ELSE nextFile
           /\ downloadProgressStore' =
                  updateProgress(downloadProgressStore, req.clientDownloadId,
                      [progress |-> IF req.attempt > 1 THEN Pct(5) ELSE Pct(3),
                       message |-> IF req.attempt > 1 THEN "Retrying download..."
                                   ELSE "Starting download...",
                       phase |-> "preparing"])
           /\ req' = [req EXCEPT !.pc = "running", !.currentCookiePath = c.tempPath]
           /\ procs' = Append(procs, NewProc(req.tempFile))
           /\ activeDownloads' =
                  mapSet(activeDownloads, req.downloadId,
                         [process |-> req.attempt, tempFile |-> req.tempFile,
                          tempCookie |-> c.tempPath])
           /\ log' = [log EXCEPT !.spawns = @ + 1,
                                 !.fetches = @ + (IF c.fetched THEN 1 ELSE 0),
                                 !.acquires = Append(@, req.forceRefreshCookies),
                                 !.formats = Append(@, req.formatId),
                                 !.created = @ \cup (c.disk \ disk)]
    /\ UNCHANGED << extraVars, now, rateLimitMap, history, nextRowId, arrivals >>

\* childProcess.stderr.on('data') (route.ts 532-560)
StderrData(line) ==
    /\ req.pc = "running"
    /\ LET k == Len(procs)
           p == procs[k]
           pr == parseProgress(line)
           write == pr # NoProgress /\ pr > p.lastProgress
       IN  /\ p.status = "running"
           /\ line \in DiagLines => p.errorOutput \subseteq {"progress"}
           /\ procs' = [procs EXCEPT ![k] =
                           [p EXCEPT !.receivedData = TRUE,
                                     !.errorOutput = @ \cup {outputText(line)},
                                     !.lastProgress = IF write THEN pr ELSE @]]
           /\ downloadProgressStore' =
                  IF write
                  THEN updateProgress(downloadProgressStore, req.clientDownloadId,
                           [progress |-> pr, message |-> "Downloading",
                            phase |-> parsePhase(line)])
                  ELSE downloadProgressStore
    /\ UNCHANGED << extraVars, now, rateLimitMap, cookiesCache, disk, nextFile, history, nextRowId,
                    activeDownloads, req, log, arrivals >>

\* childProcess.stdout.on('data') (route.ts 562-565)
StdoutData ==
    /\ req.pc = "running"
    /\ procs[Len(procs)].status = "running"
    /\ ~procs[Len(procs)].receivedData
    /\ procs' = [procs EXCEPT ![Len(procs)].receivedData = TRUE]
    /\ UNCHANGED << extraVars, now, rateLimitMap, cookiesCache, disk, nextFile, downloadProgressStore,
                    history, nextRowId, activeDownloads, req, log, arrivals >>

\* The DOWNLOAD_TIMEOUT timer of the timeout controller fires
\* (route.ts 498-506): the snapshot is reset and the extractor is killed.
\* From here on the close handler reads nothing of the closure but
\* isAborted, so the other locals are dropped.
WatchdogTimeout ==
    /\ req.pc = "running"
    /\ LET k == Len(procs)
           p == procs[k]
       IN  /\ p.status = "running"
           /\ p.tc.armed
           /\ procs' = [procs EXCEPT ![k] =
                           [NewProc(p.tempFile) EXCEPT !.tc = tcExpire(p.tc),
                                                       !.status = "killed"]]
    /\ downloadProgressStore' =
           updateProgress(downloadProgressStore, req.clientDownloadId,
               [progress |-> 0, message |-> "Connection timeout - retrying...",
                phase |-> "timeout"])
    /\ UNCHANGED << extraVars, now, rateLimitMap, cookiesCache, disk, nextFile, history, nextRowId,
                    activeDownloads, req, log, arrivals >>

\* The assignments every resolution of executeDownload ends with: POST runs
\* on from the result.
Resume(result, files, run) ==
    LET a == AfterAttempt(req, result, files, nextFile, cookiesCache,
                          downloadProgressStore, history, nextRowId, now)
    IN  /\ req' = a.req
        /\ disk' = a.disk
        /\ nextFile' = a.nextFile
        /\ cookiesCache' = a.cache
        /\ history' = a.history
        /\ nextRowId' = a.nextRowId
        /\ downloadProgressStore' = a.store
        /\ log' = [log EXCEPT !.runs = Append(@, run)]

\* The CONNECT_TIMEOUT timer fires before any output arrived
\* (route.ts 519-530): the extractor is killed and the attempt resolves.
ConnectTimeout ==
    /\ req.pc = "running"
    /\ LET k == Len(procs)
           p == procs[k]
       IN  /\ p.status = "running"
           /\ ~p.receivedData
           /\ procs' = [procs EXCEPT ![k] = [p EXCEPT !.tc = tcAbort(p.tc),
                                                      !.status = "killed",
                                                      !.tempFile = NoFile,
                                                      !.resolved = TRUE]]
           /\ Resume(Result(FALSE, "Connection timeout - server not responding",
                            FALSE, FALSE, TRUE),
                     disk,
                     Run("connect", 1, "none", p.errorOutput,
                         Result(FALSE, "", FALSE, FALSE, TRUE)))
    /\ UNCHANGED << extraVars, now, rateLimitMap, activeDownloads, arrivals >>

\* childProcess.on('error') (route.ts 567-573): the extractor could not be
\* spawned.
SpawnError ==
    /\ req.pc = "running"
    /\ LET k == Len(procs)
           p == procs[k]
       IN  /\ p.status = "running"
           /\ ~p.receivedData
           /\ procs' = [procs EXCEPT ![k] = ClosedProc]
           /\ Resume(Result(FALSE, "spawn yt-dlp ENOENT", FALSE, FALSE, FALSE),
                     disk,
                     Run("spawn_error", 1, "none", p.errorOutput,
                         Result(FALSE, "", FALSE, FALSE, FALSE)))
    /\ activeDownloads' = mapDelete(activeDownloads, req.downloadId)
    /\ UNCHANGED << extraVars, now, rateLimitMap, arrivals >>

\* The result the close handler resolves with (route.ts 575-629): abort()
\* has just run on the controller tc.
closeResult(tc, errorOutput, code, file) ==
    IF tc.isAborted
    THEN Result(FALSE, "Download timed out", FALSE, FALSE, TRUE)
    ELSE Classify(errorOutput, code, file)

\* Does the close handler reach validateDownloadedFile (which writes the
\* 'validating' snapshot)?
reachesValidation(tc, errorOutput, code, file) ==
    /\ ~tc.isAborted
    /\ ~isBotDetectionError(errorOutput)
    /\ "err_frag" \notin errorOutput
    /\ code = 0
    /\ file # "none"

\* childProcess.on('close') of the running attempt (route.ts 575-630): the
\* extractor exited by itself or was killed by the watchdog.  file is what
\* it left at the output path.
ProcClose(code, file) ==
    /\ req.pc = "running"
    /\ LET k == Len(procs)
           p == procs[k]
           tc1 == tcAbort(p.tc)
           files1 == IF file = "none" THEN disk ELSE disk \cup {p.tempFile}
           validating == reachesValidation(tc1, p.errorOutput, code, file)
           a == AfterAttempt(req, closeResult(tc1, p.errorOutput, code, file), files1,
                             nextFile, cookiesCache,
                             IF validating
                             THEN updateProgress(downloadProgressStore, req.clientDownloadId,
                                      [progress |-> Pct(92),
                                       message |-> "Validating download...",
                                       phase |-> "validating"])
                             ELSE downloadProgressStore,
                             history, nextRowId, now)
       IN  /\ p.status \in {"running", "killed"}
           /\ ~p.resolved
           /\ p.status = "killed" => code = 1
           /\ procs' = [procs EXCEPT ![k] = ClosedProc]
           /\ req' = a.req
           /\ disk' = a.disk
           /\ nextFile' = a.nextFile
           /\ cookiesCache' = a.cache
           /\ history' = a.history
           /\ nextRowId' = a.nextRowId
           /\ downloadProgressStore' = a.store
           /\ log' = [log EXCEPT
                         !.runs = Append(@, Run(IF p.status = "killed" THEN "watchdog"
                                                ELSE "exit", code, file, p.errorOutput,
                                                closeResult(tc1, p.errorOutput, code, file))),
                         !.created = @ \cup (files1 \ disk)]
    /\ activeDownloads' = mapDelete(activeDownloads, req.downloadId)
    /\ UNCHANGED << extraVars, now, rateLimitMap, arrivals >>

\* childProcess.on('close') of an extractor whose attempt was already
\* resolved by the connection timeout: the handler still runs.
LateClose(k) ==
    /\ k \in DOMAIN procs
    /\ procs[k].status = "killed"
    /\ procs[k].resolved
    /\ procs' = [procs EXCEPT ![k] = ClosedProc]
    /\ activeDownloads' = mapDelete(activeDownloads, req.downloadId)
    /\ UNCHANGED << extraVars, now, rateLimitMap, cookiesCache, disk, nextFile, downloadProgressStore,
                    history, nextRowId, req, log, arrivals >>

ExitCodes == {0, 1}
OutputFiles == {"none", "valid", "invalid"}
ClientIds == {NoId, ClientId}

Next ==
    \/ \E url \in Urls, fmt \in RequestFormats, cid \in ClientIds :
           Receive("ip1", url, fmt, cid)
    \/ \E fetchOk \in BOOLEAN : AcquireCookies(fetchOk)
    \/ \E line \in StderrLines : StderrData(line)
    \/ StdoutData
    \/ WatchdogTimeout
    \/ ConnectTimeout
    \/ SpawnError
    \/ \E code \in ExitCodes, file \in OutputFiles : ProcClose(code, file)
    \/ \E k \in 1..MAX_RETRIES : LateClose(k)

Spec == Init /\ [][Next]_vars

\* ------------------------------------------------ one client's request burst
\* RateSpec: one client sends download requests one after the other while
\* the clock advances; the extractor cannot be spawned, so every admitted
\* request ends after one attempt.
RateNext ==
    \/ Tick
    \/ RateCleanup
    \/ Receive("ip1", GoodUrl, "best[height<=720]", NoId)
    \/ AcquireCookies(TRUE)
    \/ SpawnError
    \/ NextRequest

RateSpec == Init /\ [][RateNext]_vars

\* ------------------------------------------------------- the history table
\* HistSpec: addHistoryEntry and clearHistory called in any order.
AppendHistory ==
    /\ nextRowId <= MaxAppends
    /\ history' = addHistoryEntry(history, nextRowId,
                      [url |-> GoodUrl, format |-> "best", success |-> TRUE,
                       error |-> ""], now)
    /\ nextRowId' = nextRowId + 1
    /\ UNCHANGED << extraVars, now, rateLimitMap, cookiesCache, disk, nextFile, downloadProgressStore,
                    activeDownloads, req, procs, log, arrivals >>

\* clearHistory()
ClearHistory ==
    /\ history # << >>
    /\ history' = << >>
    /\ UNCHANGED << extraVars, now, rateLimitMap, cookiesCache, disk, nextFile, downloadProgressStore,
                    nextRowId, activeDownloads, req, procs, log, arrivals >>

HistNext == AppendHistory \/ ClearHistory

HistSpec == Init /\ [][HistNext]_vars


\* -------------------------------------------- the v5.3.0 cookie cache at work
isCookiesCacheValid53_Never(cache, t) == FALSE

\* isCookiesCacheValid()
isCookiesCacheValid53(cache, t) ==
    /\ cache.isValid
    /\ cache.content # ""
    /\ ~(t - cache.lastFetch > COOKIES_CACHE_TTL53)

\* The condition under which getCachedCookies answers from the cache.
cacheHit53(cache, files, forceRefresh, t) ==
    /\ ~forceRefresh
    /\ isCookiesCacheValid53(cache, t)
    /\ cache.tempPath # NoFile
    /\ cache.tempPath \in files

invalidateCookiesCache53(cache) == [cache EXCEPT !.isValid = FALSE]

\* getCachedCookies after a fetch that answered 200 with a valid payload: the
\* old temp file is unlinked, a new one written and the cache replaced.
fetchSucceeded53(cache, files, t, serial) ==
    LET tempPath == File("cookies", serial)
    IN  [result |-> Bundle("fetched", tempPath, FALSE, FALSE),
         cache |-> [content |-> "fetched", lastFetch |-> t, tempPath |-> tempPath,
                    isValid |-> TRUE],
         disk |-> (files \ {cache.tempPath}) \cup {tempPath}]

fetchFailed53_Raises(cache, files, t, serial) ==
    [result |-> [NoBundle EXCEPT !.raised = TRUE], cache |-> cache, disk |-> files]

\* getCachedCookies, catch block: fallback consent cookies are written to a
\* new temp file and cached.
fetchFailed53(cache, files, t, serial) ==
    LET tempPath == File("cookies_fallback", serial)
    IN  [result |-> Bundle("fallback", tempPath, FALSE, TRUE),
         cache |-> [content |-> "fallback", lastFetch |-> t, tempPath |-> tempPath,
                    isValid |-> TRUE],
         disk |-> files \cup {tempPath}]

\* getCachedCookies(forceRefresh) up to its await: either the cached bundle
\* is returned or a fetch is sent.
AcquireStart(forceRefresh) ==
    /\ calls.seq < MaxCalls
    /\ LET hit == cacheHit53(calls.cache, disk, forceRefresh, now)
       IN  calls' = [calls EXCEPT
               !.seq = @ + 1,
               !.dirty = FALSE,
               !.inflight = IF hit THEN @ ELSE @ + 1,
               !.last = [kind |-> "start", forceRefresh |-> forceRefresh,
                         afterInvalidate |-> calls.dirty, fetchOk |-> FALSE,
                         result |-> IF hit
                                    THEN Bundle(calls.cache.content, calls.cache.tempPath,
                                                TRUE, FALSE)
                                    ELSE NoBundle]]
    /\ UNCHANGED << now, rateLimitMap, cookiesCache, disk, nextFile, downloadProgressStore,
                    history, nextRowId, activeDownloads, req, procs, log, arrivals,
                    stream, probe, notifier, proxies, downloads >>

\* getCachedCookies after its await: the fetch of one call in flight has
\* ended, well (fetchOk) or by network error, timeout, status or validation.
FetchDone(fetchOk) ==
    /\ calls.inflight > 0
    /\ LET r == IF fetchOk THEN fetchSucceeded53(calls.cache, disk, now, nextFile)
                ELSE fetchFailed53(calls.cache, disk, now, nextFile)
       IN  /\ calls' = [calls EXCEPT
                   !.cache = r.cache,
                   !.inflight = @ - 1,
                   !.last = [kind |-> "done", forceRefresh |-> FALSE,
                             afterInvalidate |-> FALSE, fetchOk |-> fetchOk,
                             result |-> r.result]]
           /\ disk' = r.disk
    /\ nextFile' = nextFile + 1
    /\ UNCHANGED << now, rateLimitMap, cookiesCache, downloadProgressStore,
                    history, nextRowId, activeDownloads, req, procs, log, arrivals,
                    stream, probe, notifier, proxies, downloads >>

\* invalidateCookiesCache()
Invalidate ==
    /\ calls.cache.isValid \/ ~calls.dirty
    /\ calls' = [calls EXCEPT !.cache = invalidateCookiesCache53(@), !.dirty = TRUE]
    /\ UNCHANGED << now, rateLimitMap, cookiesCache, disk, nextFile, downloadProgressStore,
                    history, nextRowId, activeDownloads, req, procs, log, arrivals,
                    stream, probe, notifier, proxies, downloads >>

\* cleanupDownload of a streaming download that ran with a cookie file:
\* the file is unlinked.
UnlinkCookie ==
    /\ \E f \in disk :
           /\ f.kind \in {"cookies", "cookies_fallback"}
           /\ disk' = disk \ {f}
    /\ UNCHANGED << now, rateLimitMap, cookiesCache, nextFile, downloadProgressStore,
                    history, nextRowId, activeDownloads, req, procs, log, arrivals,
                    extraVars >>

CacheNext ==
    \/ Tick
    \/ \E forceRefresh \in BOOLEAN : AcquireStart(forceRefresh)
    \/ \E fetchOk \in BOOLEAN : FetchDone(fetchOk)
    \/ Invalidate
    \/ UnlinkCookie

CacheSpec == Init /\ [][CacheNext]_vars


\* ------------------------------------------------ the streaming route at work
\* formatRequestSchema.safeParse(body).data: the schema is z.object({url,
\* formatId}), which drops every other key of the body, so the route's
\* clientDownloadId, format and quality are undefined.
validationData(url, formatId, cid) ==
    [url |-> url, formatId |-> formatId, clientDownloadId |-> NoId]

\* The format string the route builds when format and quality are undefined.
streamFormatId == "best[height<=720]/best"

\* parseProgress(line) of the streaming route, a percentage or null.
parseProgress53(line) == IF line.kind = "download" THEN line.pct ELSE NoProgress

\* Math.round(10 + progress * 0.85), as a stored progress value.
streamProgress(pct) == Pct((1050 + 85 * pct) \div 100)

\* getCachedCookies() as one step.
getCachedCookies53(cache, files, forceRefresh, t, fetchOk, serial) ==
    IF cacheHit53(cache, files, forceRefresh, t)
    THEN [result |-> Bundle(cache.content, cache.tempPath, TRUE, FALSE),
          cache |-> cache, disk |-> files]
    ELSE IF fetchOk THEN fetchSucceeded53(cache, files, t, serial)
    ELSE fetchFailed53(cache, files, t, serial)

killProc_NoSignal(proc) == proc

\* process.kill('SIGTERM'): the signal is sent unless the process is gone.
killProc(proc) ==
    IF proc.status = "running"
    THEN [proc EXCEPT !.killed = TRUE, !.signals = @ \cup {"SIGTERM"}]
    ELSE proc

cleanupDownload_KeepsEntry(s, files, store, id) ==
    [stream |-> s, disk |-> files, store |-> clearProgress(store, id)]

\* cleanupDownload(downloadId)
cleanupDownload(s, files, store, id) ==
    IF id \in DOMAIN s.activeDownloads
    THEN LET download == s.activeDownloads[id]
         IN  [stream |-> [s EXCEPT
                    !.interval = IF download.interval THEN FALSE ELSE @,
                    !.proc = IF ~@.killed THEN killProc(@) ELSE @,
                    !.activeDownloads = mapDelete(@, id)],
              disk |-> files \ {download.cookiePath},
              store |-> clearProgress(store, id)]
    ELSE [stream |-> s, disk |-> files, store |-> clearProgress(store, id)]

\* controller.close(): throws unless the stream is readable.
controllerClose(s) ==
    IF s.controller = "readable" THEN [s EXCEPT !.controller = "closed"]
    ELSE [s EXCEPT !.uncaught = TRUE]

\* controller.error(e): ignored unless the stream is readable.
controllerError(s) ==
    IF s.controller = "readable" THEN [s EXCEPT !.controller = "errored"] ELSE s

\* POST of the streaming route up to the await of getCachedCookies, or to
\* its 429 / 400 return.
StreamReceive(ip, url, formatId, cid) ==
    /\ stream.pc = "idle"
    /\ LET ok == checkRateLimit(rateLimitMap, ip, now)
           data == validationData(url, formatId, cid)
           id == ServerId(1)
           progressId == IF data.clientDownloadId # NoId THEN data.clientDownloadId ELSE id
           s0 == [stream EXCEPT !.downloadId = id, !.clientDownloadId = cid, !.url = url]
       IN  /\ rateLimitMap' = rateLimitAfter(rateLimitMap, ip, now)
           /\ IF ~ok
              THEN /\ stream' = [s0 EXCEPT !.pc = "done", !.response = "429"]
                   /\ UNCHANGED downloadProgressStore
              ELSE IF ~formatRequestSchema(url, formatId)
              THEN /\ stream' = [s0 EXCEPT !.pc = "done", !.response = "400"]
                   /\ UNCHANGED downloadProgressStore
              ELSE /\ stream' = [s0 EXCEPT !.pc = "cookies", !.progressId = progressId,
                                           !.reported = "preparing"]
                   /\ downloadProgressStore' =
                          updateProgress(downloadProgressStore, progressId,
                              [progress |-> Pct(5), message |-> "Preparing download...",
                               phase |-> "preparing"])
    /\ UNCHANGED << now, cookiesCache, disk, nextFile, history, nextRowId, activeDownloads,
                    req, procs, log, arrivals, calls, probe, notifier, proxies, downloads >>

\* POST whose body is not JSON: request.json() throws and the catch block
\* answers 200 with a JSON error body.
StreamReceiveMalformed(ip) ==
    /\ stream.pc = "idle"
    /\ checkRateLimit(rateLimitMap, ip, now) = TRUE
    /\ rateLimitMap' = rateLimitAfter(rateLimitMap, ip, now)
    /\ LET id == ServerId(1)
           c == cleanupDownload([stream EXCEPT !.downloadId = id], disk,
                                downloadProgressStore, id)
       IN  /\ stream' = [c.stream EXCEPT !.pc = "done", !.response = "json_error"]
           /\ disk' = c.disk
           /\ downloadProgressStore' = c.store
    /\ UNCHANGED << now, cookiesCache, nextFile, history, nextRowId, activeDownloads,
                    req, procs, log, arrivals, calls, probe, notifier, proxies, downloads >>

\* POST from the return of getCachedCookies to the return of the streaming
\* Response: the extractor is spawned and tracked, the stream is started
\* (keep-alive timer, handlers) and the Response is returned.
StreamSpawn(fetchOk, stubborn) ==
    /\ stream.pc = "cookies"
    /\ LET c == getCachedCookies53(calls.cache, disk, FALSE, now, fetchOk, nextFile)
       IN  /\ calls' = [calls EXCEPT !.cache = c.cache]
           /\ disk' = c.disk
           /\ stream' = [stream EXCEPT
                  !.pc = "streaming",
                  !.cookiePath = c.result.tempPath,
                  !.proc = [status |-> "running", killed |-> FALSE, signals |-> {},
                            stubborn |-> stubborn],
                  !.activeDownloads = mapSet(@, stream.downloadId,
                                             [interval |-> TRUE,
                                              cookiePath |-> c.result.tempPath]),
                  !.controller = "readable",
                  !.interval = TRUE,
                  !.response = "stream",
                  !.header = stream.downloadId]
    /\ nextFile' = nextFile + 1
    /\ UNCHANGED << now, rateLimitMap, cookiesCache, downloadProgressStore, history,
                    nextRowId, activeDownloads, req, procs, log, arrivals, probe, notifier, proxies, downloads >>

\* proc.stdout 'data': the chunk is enqueued; when that fails the process is
\* sent SIGTERM.
StreamStdout ==
    /\ stream.pc = "streaming"
    /\ stream.proc.status = "running"
    /\ stream' = IF stream.controller = "readable"
                 THEN [stream EXCEPT !.responseStarted = TRUE]
                 ELSE [stream EXCEPT !.responseStarted = TRUE,
                                     !.enqueueFailed = TRUE,
                                     !.proc = killProc(@)]
    /\ UNCHANGED << now, rateLimitMap, cookiesCache, disk, nextFile, downloadProgressStore,
                    history, nextRowId, activeDownloads, req, procs, log, arrivals,
                    calls, probe, notifier, proxies, downloads >>

\* proc.stderr 'data'
StreamStderr(line) ==
    /\ stream.pc = "streaming"
    /\ stream.proc.status = "running"
    /\ line \in DiagLines => stream.errorOutput = {}
    /\ LET p == parseProgress53(line)
           advances == p # NoProgress /\ p > stream.lastProgress
       IN  /\ stream' = [stream EXCEPT
                  !.errorOutput = IF line \in DiagLines THEN @ \cup {line.kind} ELSE @,
                  !.lastProgress = IF advances THEN p ELSE @,
                  !.reported = IF advances THEN "downloading" ELSE @]
           /\ downloadProgressStore' =
                  IF advances
                  THEN updateProgress(downloadProgressStore, stream.progressId,
                           [progress |-> streamProgress(p), message |-> "Downloading...",
                            phase |-> "downloading"])
                  ELSE downloadProgressStore
    /\ UNCHANGED << now, rateLimitMap, cookiesCache, disk, nextFile, history, nextRowId,
                    activeDownloads, req, procs, log, arrivals, calls, probe, notifier, proxies, downloads >>

\* The message the close handler derives from errorOutput.
streamErrorMsg(errorOutput) ==
    IF "err_bot" \in errorOutput THEN "YouTube blocked the request. Try again later."
    ELSE IF "err_unavailable" \in errorOutput
    THEN "Video unavailable in your region or is private."
    ELSE "Download failed"

catchHistoryFailure_Rethrows(s) == [s EXCEPT !.historyFailed = TRUE, !.uncaught = TRUE]

\* addHistoryEntry(...).catch(() => {}): a rejected insert is swallowed.
catchHistoryFailure(s) == [s EXCEPT !.historyFailed = TRUE]

\* proc 'close': the process has exited, by itself or on a signal it obeys,
\* or it could not be spawned: 'close' is emitted after 'error' as well, with
\* a non-zero code.  historyOk tells whether the insert of the history row
\* succeeds.  A throwing controller.close() ends the handler before
\* cleanupDownload.
StreamCloseWith(code, historyOk) ==
    /\ stream.pc = "streaming"
    /\ stream.proc.status \in {"running", "failed"}
    /\ stream.proc.status = "failed" => code # 0
    /\ stream.proc.status = "running" =>
           (stream.proc.signals = {} \/ (~stream.proc.stubborn /\ code # 0))
    /\ LET errorMsg == streamErrorMsg(stream.errorOutput)
           s0 == [stream EXCEPT !.interval = FALSE,
                                !.proc.status = "closed",
                                !.reported = IF code = 0 THEN "complete" ELSE "error",
                                !.exit = IF stream.proc.status = "failed" THEN @
                                         ELSE IF code = 0 THEN "ok" ELSE "failed"]
           store1 == IF code = 0
                     THEN updateProgress(downloadProgressStore, stream.progressId,
                              [progress |-> Pct(100), message |-> "Download complete!",
                               phase |-> "complete"])
                     ELSE updateProgress(downloadProgressStore, stream.progressId,
                              [progress |-> 0, message |-> errorMsg, phase |-> "error",
                               error |-> errorMsg])
           sH == IF historyOk THEN s0 ELSE catchHistoryFailure(s0)
           s1 == IF sH.uncaught THEN sH
                 ELSE IF code # 0 /\ ~stream.responseStarted THEN controllerError(sH)
                 ELSE controllerClose(sH)
           c == IF s1.uncaught THEN [stream |-> s1, disk |-> disk, store |-> store1]
                ELSE cleanupDownload(s1, disk, store1, stream.downloadId)
       IN  /\ stream' = c.stream
           /\ disk' = c.disk
           /\ downloadProgressStore' = c.store
           /\ history' = IF historyOk
                         THEN addHistoryEntry(history, nextRowId,
                                  [url |-> stream.url, format |-> streamFormatId,
                                   success |-> (code = 0),
                                   error |-> IF code = 0 THEN "" ELSE errorMsg], now)
                         ELSE history
           /\ nextRowId' = IF historyOk THEN nextRowId + 1 ELSE nextRowId
           /\ calls' = IF code # 0 /\ "err_bot" \in stream.errorOutput
                       THEN [calls EXCEPT !.cache = invalidateCookiesCache53(@)]
                       ELSE calls
    /\ UNCHANGED << now, rateLimitMap, cookiesCache, nextFile, activeDownloads, req, procs,
                    log, arrivals, probe, notifier, proxies, downloads >>

\* The close handler with a working history table ...
StreamClose(code) == StreamCloseWith(code, TRUE)

\* ... and with one whose insert is rejected.
StreamCloseHistoryFails(code) == StreamCloseWith(code, FALSE)

\* proc 'error': the extractor could not be spawned ('close' follows).
StreamProcError ==
    /\ stream.pc = "streaming"
    /\ stream.proc.status = "running"
    /\ ~stream.responseStarted
    /\ stream.errorOutput = {}
    /\ stream.lastProgress = 0
    /\ stream.proc.signals = {}
    /\ LET s0 == controllerError([stream EXCEPT !.interval = FALSE,
                                                !.proc.status = "failed",
                                                !.exit = "spawn_error"])
           c == cleanupDownload(s0, disk, downloadProgressStore, stream.downloadId)
       IN  /\ stream' = c.stream
           /\ disk' = c.disk
           /\ downloadProgressStore' = c.store
    /\ UNCHANGED << now, rateLimitMap, cookiesCache, nextFile, history, nextRowId,
                    activeDownloads, req, procs, log, arrivals, calls, probe, notifier, proxies, downloads >>

\* ReadableStream cancel(): the client has disconnected.
StreamCancel ==
    /\ stream.pc = "streaming"
    /\ stream.controller = "readable"
    /\ LET c == cleanupDownload([stream EXCEPT !.controller = "cancelled"], disk,
                                downloadProgressStore, stream.downloadId)
       IN  /\ stream' = c.stream
           /\ disk' = c.disk
           /\ downloadProgressStore' = c.store
    /\ UNCHANGED << now, rateLimitMap, cookiesCache, nextFile, history, nextRowId,
                    activeDownloads, req, procs, log, arrivals, calls, probe, notifier, proxies, downloads >>

\* DELETE /api/download?id=...
StreamDelete(id) ==
    /\ Len(stream.deleteLog) < MaxDeletes
    /\ IF id \in DOMAIN stream.activeDownloads
       THEN LET c == cleanupDownload(stream, disk, downloadProgressStore, id)
            IN  /\ stream' = [c.stream EXCEPT
                       !.deleteLog = Append(@, [id |-> id, status |-> "200"])]
                /\ disk' = c.disk
                /\ downloadProgressStore' = c.store
       ELSE /\ stream' = [stream EXCEPT
                       !.deleteLog = Append(@, [id |-> id, status |-> "404"])]
            /\ UNCHANGED << disk, downloadProgressStore >>
    /\ UNCHANGED << now, rateLimitMap, cookiesCache, nextFile, history, nextRowId,
                    activeDownloads, req, procs, log, arrivals, calls, probe, notifier, proxies, downloads >>

DeleteIds == {ServerId(1), ClientId}

StreamNext ==
    \/ \E url \in Urls \cup {MalformedUrl}, formatId \in {"best[height<=720]", ""},
          cid \in ClientIds :
           StreamReceive("ip1", url, formatId, cid)
    \/ StreamReceiveMalformed("ip1")
    \/ \E fetchOk \in BOOLEAN, stubborn \in BOOLEAN : StreamSpawn(fetchOk, stubborn)
    \/ StreamStdout
    \/ \E line \in StderrLines : StreamStderr(line)
    \/ \E code \in ExitCodes : StreamClose(code)
    \/ StreamProcError
    \/ StreamCancel
    \/ \E id \in DeleteIds : StreamDelete(id)

StreamSpec == Init /\ [][StreamNext]_vars

\* The streaming route with a history table whose inserts may be rejected.
StreamDbNext ==
    \/ StreamNext
    \/ \E code \in ExitCodes : StreamCloseHistoryFails(code)

StreamDbSpec == Init /\ [][StreamDbNext]_vars

\* An extractor that can exit does exit.
StreamFairSpec == StreamSpec /\ WF_vars(\E code \in ExitCodes : StreamClose(code))


\* --------------------------------------------------- pure functions on trial
\* The state in which a pure function is about to be applied to one of the
\* given arguments; everything else is as after construction.
ProbeInit(arguments) ==
    /\ now = 0
    /\ rateLimitMap = EmptyMap
    /\ cookiesCache = EmptyCache
    /\ disk = {}
    /\ nextFile = 1
    /\ downloadProgressStore = EmptyMap
    /\ history = << >>
    /\ nextRowId = 1
    /\ activeDownloads = EmptyMap
    /\ req = IdleReq
    /\ procs = << >>
    /\ log = EmptyLog
    /\ arrivals = << >>
    /\ stream = IdleStream
    /\ calls = IdleCalls
    /\ probe \in { [arg |-> a, done |-> FALSE, result |-> << >>] : a \in arguments }
    /\ notifier = IdleNotifier
    /\ proxies = NoProxies
    /\ downloads = NoDownloads

\* ---------------------------------------------- ytdlp.ts: the format list
\* A property the extractor's JSON does not carry.
Undefined == "<undefined>"

\* JavaScript truthiness of a string-or-undefined value.
truthy(v) == v \notin {"", Undefined}

\* The raw format entries the extractor reports: format_id, vcodec, acodec
\* and height (0 when absent).
RawFormats ==
    [format_id : {"137", "", Undefined},
     vcodec : {"avc1", "none", Undefined},
     acodec : {"mp4a", "none", Undefined},
     height : {0, 720}]

\* The sequences over a set of at most n elements.
SeqsUpTo(S, n) == UNION { [1..k -> S] : k \in 0..n }

\* rawInfo.formats: an array, or something else (absent).
RawFormatLists ==
    { [isArray |-> TRUE, formats |-> l] : l \in SeqsUpTo(RawFormats, MaxFormats) }
        \cup { [isArray |-> FALSE, formats |-> << >>] }

keepsFormat_Any(f) == TRUE

\* parseFormats, the filter.
keepsFormat(f) == truthy(f.format_id) /\ (f.vcodec # "none" \/ f.acodec # "none")

\* parseFormats, the mapping; resolution holds parseInt(resolution) || 0.
toVideoFormat(f) ==
    [formatId |-> f.format_id,
     resolution |-> f.height,
     vcodec |-> IF truthy(f.vcodec) THEN f.vcodec ELSE "none",
     acodec |-> IF truthy(f.acodec) THEN f.acodec ELSE "none",
     hasVideo |-> f.vcodec # "none",
     hasAudio |-> f.acodec # "none"]

\* parseFormats, the comparator: a sorts before b.
sortsBefore(a, b) ==
    IF a.hasVideo /\ ~b.hasVideo THEN TRUE
    ELSE IF ~a.hasVideo /\ b.hasVideo THEN FALSE
    ELSE b.resolution - a.resolution < 0

\* Array.prototype.sort with that comparator (stable).
RECURSIVE sortFormats(_)
sortFormats(fs) ==
    IF fs = << >> THEN << >>
    ELSE LET rest == sortFormats(Tail(fs))
             f == Head(fs)
             before == SelectSeq(rest, LAMBDA x : sortsBefore(x, f))
             after == SelectSeq(rest, LAMBDA x : ~sortsBefore(x, f))
         IN  before \o << f >> \o after

parseFormats(raw) ==
    IF ~raw.isArray THEN << >>
    ELSE LET kept == SelectSeq(raw.formats, keepsFormat)
         IN  sortFormats([i \in DOMAIN kept |-> toVideoFormat(kept[i])])

Combined(formatId, resolution, hasVideo, acodec) ==
    [formatId |-> formatId, resolution |-> resolution,
     vcodec |-> IF hasVideo THEN "auto" ELSE "none", acodec |-> acodec,
     hasVideo |-> hasVideo, hasAudio |-> TRUE]

getCombinedFormats(formats) ==
    << Combined("bestvideo+bestaudio/best", 0, TRUE, "auto"),
       Combined("bestvideo[height<=1080]+bestaudio/best[height<=1080]", 1080, TRUE, "auto"),
       Combined("bestvideo[height<=720]+bestaudio/best[height<=720]", 720, TRUE, "auto"),
       Combined("bestvideo[height<=480]+bestaudio/best[height<=480]", 480, TRUE, "auto"),
       Combined("bestaudio/best", 0, FALSE, "auto"),
       Combined("bestaudio[ext=m4a]/bestaudio/best", 0, FALSE, "mp3") >>

\* fetchVideoInfo, single video: formats: [...combinedFormats, ...formats].
ListFormats ==
    /\ ~probe.done
    /\ LET formats == parseFormats(probe.arg)
       IN  probe' = [probe EXCEPT !.done = TRUE,
                                  !.result = getCombinedFormats(formats) \o formats]
    /\ UNCHANGED << now, rateLimitMap, cookiesCache, disk, nextFile, downloadProgressStore,
                    history, nextRowId, activeDownloads, req, procs, log, arrivals,
                    stream, calls, notifier, proxies, downloads >>

FormatSpec == ProbeInit(RawFormatLists) /\ [][ListFormats]_vars

\* ------------------------------------------- types.ts: the schema on trial
\* youtubeUrlSchema.safeParse(url).success
ValidateUrl ==
    /\ ~probe.done
    /\ probe' = [probe EXCEPT !.done = TRUE, !.result = youtubeUrlSchema(probe.arg)]
    /\ UNCHANGED << now, rateLimitMap, cookiesCache, disk, nextFile, downloadProgressStore,
                    history, nextRowId, activeDownloads, req, procs, log, arrivals,
                    stream, calls, notifier, proxies, downloads >>

UrlSpec == ProbeInit(UrlStrings) /\ [][ValidateUrl]_vars

\* ------------------------------------------- the extractor's argument lists
\* One argument of a list: its flag, the file it names (NoFile when it names
\* none) and, for --add-header, the header's name.
Arg(flag) == [flag |-> flag, file |-> NoFile, header |-> ""]
CookiesArg(path) == [flag |-> "--cookies", file |-> path, header |-> ""]
HeaderArg(name) == [flag |-> "--add-header", file |-> NoFile, header |-> name]

\* if (cookiePath && fs.existsSync(cookiePath)) args.push('--cookies', cookiePath)
cookieArgs_Unchecked(cookiePath, files) ==
    IF cookiePath # NoFile THEN << CookiesArg(cookiePath) >> ELSE << >>

cookieArgs(cookiePath, files) ==
    IF cookiePath # NoFile /\ cookiePath \in files
    THEN << CookiesArg(cookiePath) >>
    ELSE << >>

\* fetch-info/route.ts buildSafeYtDlpArgs(url, formatId, outputPath, cookiePath, options)
buildSafeYtDlpArgs(cookiePath, files, needsMerge, audio) ==
    << Arg("url"), Arg("-f"), Arg("-o"), Arg("--no-playlist"), Arg("--no-mtime"),
       Arg("--retries"), Arg("--fragment-retries"), Arg("--file-access-retries"),
       Arg("--buffer-size"), Arg("--http-chunk-size"), Arg("--socket-timeout"),
       Arg("--geo-bypass"), Arg("--force-ipv4"), Arg("--no-warnings"),
       Arg("--ignore-errors"), Arg("--embed-metadata") >>
    \o cookieArgs(cookiePath, files)
    \o (IF needsMerge
        THEN << Arg("--merge-output-format"), Arg("--postprocessor-args") >>
        ELSE << >>)
    \o (IF audio
        THEN << Arg("-x"), Arg("--audio-format"), Arg("--audio-quality") >>
        ELSE << >>)

\* The streaming route's args: output to stdout, then cookies, proxy, audio.
streamArgs(cookiePath, files, proxy, isAudioOnly) ==
    << Arg("url"), Arg("-f"), Arg("-o"), Arg("--merge-output-format"),
       Arg("--no-playlist"), Arg("--no-warnings"), Arg("--progress"), Arg("--newline"),
       Arg("--concurrent-fragments"), Arg("--socket-timeout"), Arg("--retries"),
       Arg("--fragment-retries"), Arg("--http-chunk-size"), Arg("--buffer-size"),
       Arg("--no-part"), Arg("--no-mtime") >>
    \o cookieArgs(cookiePath, files)
    \o (IF proxy THEN << Arg("--proxy") >> ELSE << >>)
    \o (IF isAudioOnly
        THEN << Arg("-x"), Arg("--audio-format"), Arg("--audio-quality") >>
        ELSE << >>)

\* ytdlp.ts getAntiBotArgs(cookiePath): user agent, referer, cookies, two
\* headers that carry no credentials, pacing and extractor arguments.
getAntiBotArgs(cookiePath, files) ==
    << Arg("--user-agent"), Arg("--referer") >>
    \o cookieArgs(cookiePath, files)
    \o << HeaderArg("Accept-Language"), HeaderArg("Accept"),
          Arg("--sleep-requests"), Arg("--sleep-interval"), Arg("--max-sleep-interval"),
          Arg("--no-check-certificates"), Arg("--extractor-args"), Arg("--geo-bypass"),
          Arg("--force-ipv4"), Arg("--ignore-errors"), Arg("--no-warnings") >>

ArgBuilders == {"buildSafeYtDlpArgs", "streamArgs", "getAntiBotArgs"}
CookieFiles == {File("cookie", 1), File("cookie", 2)}

\* What a builder is called with: the credential path (NoFile for null), the
\* files on disk at that moment, and the two options of the builder.
ArgInputs ==
    [builder : ArgBuilders, cookiePath : CookieFiles \cup {NoFile},
     files : SUBSET CookieFiles, optA : BOOLEAN, optB : BOOLEAN]

buildArgs(a) ==
    CASE a.builder = "buildSafeYtDlpArgs" ->
             buildSafeYtDlpArgs(a.cookiePath, a.files, a.optA, a.optB)
      [] a.builder = "streamArgs" -> streamArgs(a.cookiePath, a.files, a.optA, a.optB)
      [] OTHER -> getAntiBotArgs(a.cookiePath, a.files)

BuildArgs ==
    /\ ~probe.done
    /\ probe' = [probe EXCEPT !.done = TRUE, !.result = buildArgs(probe.arg)]
    /\ UNCHANGED << now, rateLimitMap, cookiesCache, disk, nextFile, downloadProgressStore,
                    history, nextRowId, activeDownloads, req, procs, log, arrivals,
                    stream, calls, notifier, proxies, downloads >>

ArgsSpec == ProbeInit(ArgInputs) /\ [][BuildArgs]_vars

\* The streaming route while time passes.  The route arms no timer for the
\* extractor: its only timer, the keep-alive interval (part_006 253-259),
\* writes a log line and changes no state, so the passing of time is the
\* only timed step there is.  Time is observed while an extractor runs, the
\* period in which a watchdog would fire.
StreamTick ==
    /\ stream.pc = "streaming"
    /\ stream.proc.status = "running"
    /\ Tick

StreamTimedNext ==
    \/ StreamNext
    \/ StreamTick

\* Time passes for as long as the clock of the model allows.
StreamTimedSpec == Init /\ [][StreamTimedNext]_vars /\ WF_vars(StreamTick)

\* ------------------------------------- download-progress: the SSE channel
\* (the GET handler that follows the health check in health/route.ts)
\* The correlation ids a client may poll.
ProgressIds == {ClientId, ServerId(1)}

\* controller.enqueue(frame) inside try: the frame is sent when the stream
\* is readable, and the call throws otherwise.
enqueue_AfterClose(n, kind) ==
    [ok |-> TRUE,
     n |-> [n EXCEPT !.frames = @ + 1, !.last = kind,
                     !.first = IF @ = "none" THEN kind ELSE @]]

enqueue(n, kind) ==
    IF n.controller = "readable"
    THEN [ok |-> TRUE,
          n |-> [n EXCEPT !.frames = @ + 1, !.last = kind,
                          !.first = IF @ = "none" THEN kind ELSE @]]
    ELSE [ok |-> FALSE, n |-> n]

\* isActive = false; clearInterval(interval)
stopPolling(n) == [n EXCEPT !.isActive = FALSE, !.interval = FALSE]

\* try { controller.close() } catch {}
closeQuietly(n) ==
    IF n.controller = "readable" THEN [n EXCEPT !.controller = "closed"] ELSE n

\* GET /api/download-progress?id=...: 400 without an id; otherwise the stream
\* starts, the 'connecting' frame is sent, the polling interval and the
\* ten-minute timer are armed.
NotifierConnect(id) ==
    /\ notifier.pc = "none"
    /\ notifier' =
           IF id = NoId
           THEN [notifier EXCEPT !.pc = "done", !.response = "400"]
           ELSE enqueue([notifier EXCEPT !.pc = "open", !.id = id, !.response = "stream",
                                         !.controller = "readable", !.isActive = TRUE,
                                         !.interval = TRUE, !.capTimer = TRUE],
                        "connecting").n
    /\ UNCHANGED << now, rateLimitMap, cookiesCache, disk, nextFile, downloadProgressStore,
                    history, nextRowId, activeDownloads, req, procs, log, arrivals,
                    stream, calls, probe, proxies, downloads >>

\* The setInterval callback: one snapshot frame, or a heartbeat when the
\* store has nothing for the id; a failed enqueue stops the polling; a
\* snapshot that is completed or has an error arms a deletion timer.
NotifierPoll ==
    /\ notifier.interval
    /\ notifier.polls < MaxPolls
    /\ LET n0 == [notifier EXCEPT !.polls = @ + 1]
           present == notifier.id \in DOMAIN downloadProgressStore
           progressData == downloadProgressStore[notifier.id]
           e == enqueue(n0, IF present THEN "snapshot" ELSE "heartbeat")
           n1 == IF e.ok THEN e.n ELSE stopPolling(n0)
       IN  notifier' =
               IF ~notifier.isActive THEN [notifier EXCEPT !.interval = FALSE]
               ELSE IF present /\ (progressData.completed \/ truthy(progressData.error))
               THEN [n1 EXCEPT !.deleteTimers = @ + 1]
               ELSE n1
    /\ UNCHANGED << now, rateLimitMap, cookiesCache, disk, nextFile, downloadProgressStore,
                    history, nextRowId, activeDownloads, req, procs, log, arrivals,
                    stream, calls, probe, proxies, downloads >>

\* A deletion timer fires: downloadProgressStore.delete(downloadId).
NotifierDeleteTimer ==
    /\ notifier.deleteTimers > 0
    /\ notifier' = [notifier EXCEPT !.deleteTimers = @ - 1]
    /\ downloadProgressStore' = clearProgress(downloadProgressStore, notifier.id)
    /\ UNCHANGED << now, rateLimitMap, cookiesCache, disk, nextFile, history, nextRowId,
                    activeDownloads, req, procs, log, arrivals, stream, calls, probe, proxies, downloads >>

\* request.signal 'abort': the client has disconnected.
NotifierAbort ==
    /\ notifier.pc = "open"
    /\ ~notifier.aborted
    /\ notifier' = [closeQuietly(stopPolling(notifier)) EXCEPT !.aborted = TRUE]
    /\ UNCHANGED << now, rateLimitMap, cookiesCache, disk, nextFile, downloadProgressStore,
                    history, nextRowId, activeDownloads, req, procs, log, arrivals,
                    stream, calls, probe, proxies, downloads >>

\* The consumer of the response cancels the stream (no cancel() is defined:
\* no code of the handler runs).
NotifierStreamCancel ==
    /\ notifier.controller = "readable"
    /\ notifier' = [notifier EXCEPT !.controller = "cancelled"]
    /\ UNCHANGED << now, rateLimitMap, cookiesCache, disk, nextFile, downloadProgressStore,
                    history, nextRowId, activeDownloads, req, procs, log, arrivals,
                    stream, calls, probe, proxies, downloads >>

\* The ten-minute timer: polling stops, the timeout message is sent and the
\* stream is closed; both are skipped when the enqueue throws.
NotifierCap ==
    /\ notifier.capTimer
    /\ LET n0 == [stopPolling(notifier) EXCEPT !.capTimer = FALSE]
           e == enqueue(n0, "timeout")
       IN  notifier' = IF e.ok
                       THEN [closeQuietly(e.n) EXCEPT !.timeouts = @ + 1]
                       ELSE n0
    /\ UNCHANGED << now, rateLimitMap, cookiesCache, disk, nextFile, downloadProgressStore,
                    history, nextRowId, activeDownloads, req, procs, log, arrivals,
                    stream, calls, probe, proxies, downloads >>

\* What the buffered route writes for a request: the first snapshot, the
\* snapshot of a delivered file and the snapshot of a failed request.
ReportedData ==
    { [progress |-> 0, message |-> "Fetching cookies...", phase |-> "preparing"],
      [progress |-> Pct(100), message |-> "Complete!", phase |-> "complete",
       completed |-> TRUE, fileReady |-> TRUE],
      [progress |-> 0, message |-> "Download timed out", phase |-> "error",
       error |-> "Download timed out", completed |-> FALSE] }

\* updateProgress(clientDownloadId, data) called by a download request.
ReportProgress(id, data) ==
    /\ downloadProgressStore' = updateProgress(downloadProgressStore, id, data)
    /\ downloadProgressStore' # downloadProgressStore
    /\ UNCHANGED << now, rateLimitMap, cookiesCache, disk, nextFile, history, nextRowId,
                    activeDownloads, req, procs, log, arrivals, stream, calls, probe,
                    notifier, proxies, downloads >>

NotifierNext ==
    \/ \E id \in ProgressIds \cup {NoId} : NotifierConnect(id)
    \/ NotifierPoll
    \/ NotifierDeleteTimer
    \/ NotifierAbort
    \/ NotifierStreamCancel
    \/ NotifierCap
    \/ \E id \in ProgressIds, data \in ReportedData : ReportProgress(id, data)

NotifierSpec == Init /\ [][NotifierNext]_vars

\* Armed timers fire.
NotifierFairSpec ==
    /\ NotifierSpec
    /\ WF_vars(NotifierPoll)
    /\ WF_vars(NotifierDeleteTimer)
    /\ WF_vars(NotifierCap)

\* ------------------------------------------- yt-dlp-utils.ts: the proxy list
\* A proxy string is its scheme and its host; NoProxy is the empty string.
Proxy(scheme, host) == [scheme |-> scheme, host |-> host]
ProxyStrings ==
    {Proxy("http", "p1:8080"), Proxy("socks5", "p2:1080"), Proxy("ftp", "p3:21"), NoProxy}

\* p && (p.startsWith('http') || p.startsWith('socks'))
isProxyUrl(p) == p # NoProxy /\ p.scheme \in {"http", "https", "socks4", "socks5"}

\* What PROXY_LIST holds when the server starts, already split and trimmed.
ProxyEnvs ==
    { << >>, << Proxy("http", "p1:8080") >>,
      << Proxy("ftp", "p3:21"), Proxy("socks5", "p2:1080") >> }

\* The lists the admin panel may send.
ProxyLists ==
    { << >>, << Proxy("http", "p1:8080") >>, << Proxy("socks5", "p2:1080"), NoProxy >>,
      << Proxy("http", "p1:8080"), Proxy("ftp", "p3:21"), Proxy("socks5", "p2:1080") >> }

\* initProxyList(): the list is loaded from the environment when that holds
\* anything.
initProxyList(list, env) ==
    IF env # << >> THEN SelectSeq(env, isProxyUrl) ELSE list

\* getProxyList(): an empty list is initialised first.
getProxyList(list, env) == IF Len(list) = 0 THEN initProxyList(list, env) ELSE list

\* The state in which the server starts with one of the environments.
ProxyInit ==
    /\ now = 0
    /\ rateLimitMap = EmptyMap
    /\ cookiesCache = EmptyCache
    /\ disk = {}
    /\ nextFile = 1
    /\ downloadProgressStore = EmptyMap
    /\ history = << >>
    /\ nextRowId = 1
    /\ activeDownloads = EmptyMap
    /\ req = IdleReq
    /\ procs = << >>
    /\ log = EmptyLog
    /\ arrivals = << >>
    /\ stream = IdleStream
    /\ calls = IdleCalls
    /\ probe = << >>
    /\ notifier = IdleNotifier
    /\ proxies \in { [NoProxies EXCEPT !.env = e] : e \in ProxyEnvs }
    /\ downloads = NoDownloads

ProxyUnchanged ==
    UNCHANGED << now, rateLimitMap, cookiesCache, disk, nextFile, downloadProgressStore,
                 history, nextRowId, activeDownloads, req, procs, log, arrivals, stream,
                 calls, probe, notifier, downloads >>

\* setProxyList(proxies)
SetProxyList(list) ==
    /\ proxies' = [proxies EXCEPT !.list = SelectSeq(list, isProxyUrl), !.byAdmin = TRUE,
                                  !.op = "set"]
    /\ ProxyUnchanged

\* addProxy(proxy)
AddProxy(p) ==
    /\ proxies' = [proxies EXCEPT
           !.list = IF isProxyUrl(p) /\ \A i \in DOMAIN @ : @[i] # p
                    THEN Append(@, p) ELSE @,
           !.byAdmin = TRUE, !.op = "add"]
    /\ ProxyUnchanged

\* removeProxy(proxy)
RemoveProxy(p) ==
    /\ proxies' = [proxies EXCEPT !.list = SelectSeq(@, LAMBDA q : q # p),
                                  !.byAdmin = TRUE, !.op = "remove"]
    /\ ProxyUnchanged

\* getRandomProxy(): null for an empty list, else the element at a random
\* index; the list getProxyList loaded stays the module's list.
GetRandomProxy ==
    /\ LET list == getProxyList(proxies.list, proxies.env)
       IN  \E index \in 0..(IF Len(list) = 0 THEN 0 ELSE Len(list) - 1) :
               proxies' = [proxies EXCEPT
                   !.list = list,
                   !.picked = IF Len(list) = 0 THEN NoProxy ELSE list[index + 1],
                   !.op = "pick"]
    /\ ProxyUnchanged

ProxyNext ==
    \/ \E list \in ProxyLists : SetProxyList(list)
    \/ \E p \in ProxyStrings : AddProxy(p)
    \/ \E p \in ProxyStrings : RemoveProxy(p)
    \/ GetRandomProxy

ProxySpec == ProxyInit /\ [][ProxyNext]_vars

\* ------------------------------ streaming downloads that share the cookie cache
\* The part of a download that cleanupDownload reads and writes.
cleanupView(d) ==
    [interval |-> downloads.of[d].interval, proc |-> downloads.of[d].proc,
     activeDownloads |-> downloads.table]

SharedUnchanged ==
    UNCHANGED << now, rateLimitMap, cookiesCache, history, nextRowId, activeDownloads,
                 req, procs, log, arrivals, stream, probe, notifier, proxies >>

\* POST of download d from the return of getCachedCookies to the return of
\* the Response: the arguments are built, the extractor is spawned and
\* entered in the table with the cookie path.
SharedSpawn(d, fetchOk) ==
    /\ downloads.of[d].pc = "idle"
    /\ LET c == getCachedCookies53(calls.cache, disk, FALSE, now, fetchOk, nextFile)
           cookiePath == c.result.tempPath
           args == streamArgs(cookiePath, c.disk, FALSE, FALSE)
           given == { args[i].file : i \in { j \in DOMAIN args : args[j].flag = "--cookies" } }
       IN  /\ calls' = [calls EXCEPT !.cache = c.cache]
           /\ disk' = c.disk
           /\ downloads' = [downloads EXCEPT
                  !.table = mapSet(@, d, [interval |-> TRUE, cookiePath |-> cookiePath]),
                  !.of[d] = [pc |-> "streaming",
                             proc |-> [status |-> "running", killed |-> FALSE,
                                       signals |-> {}, stubborn |-> FALSE],
                             interval |-> TRUE,
                             cookies |-> IF given = {} THEN NoFile
                                         ELSE CHOOSE f \in given : TRUE]]
    /\ nextFile' = nextFile + 1
    /\ UNCHANGED downloadProgressStore
    /\ SharedUnchanged

\* proc 'close' of download d; bot tells whether stderr named a bot check,
\* which invalidates the cache when the code is not 0.
SharedClose(d, code, bot) ==
    /\ downloads.of[d].pc = "streaming"
    /\ downloads.of[d].proc.status = "running"
    /\ bot => code # 0
    /\ downloads.of[d].proc.signals # {} => code # 0
    /\ LET s0 == [cleanupView(d) EXCEPT !.interval = FALSE, !.proc.status = "closed"]
           c == cleanupDownload(s0, disk, downloadProgressStore, d)
       IN  /\ downloads' = [downloads EXCEPT
                  !.table = c.stream.activeDownloads,
                  !.of[d] = [@ EXCEPT !.pc = "done", !.proc = c.stream.proc,
                                      !.interval = c.stream.interval]]
           /\ disk' = c.disk
           /\ downloadProgressStore' = c.store
    /\ calls' = IF bot THEN [calls EXCEPT !.cache = invalidateCookiesCache53(@)] ELSE calls
    /\ UNCHANGED nextFile
    /\ SharedUnchanged

\* cancel() of download d's stream: its client has disconnected.
SharedCancel(d) ==
    /\ downloads.of[d].pc = "streaming"
    /\ downloads.of[d].proc.status = "running"
    /\ d \in DOMAIN downloads.table
    /\ LET c == cleanupDownload(cleanupView(d), disk, downloadProgressStore, d)
       IN  /\ downloads' = [downloads EXCEPT
                  !.table = c.stream.activeDownloads,
                  !.of[d] = [@ EXCEPT !.proc = c.stream.proc,
                                      !.interval = c.stream.interval]]
           /\ disk' = c.disk
           /\ downloadProgressStore' = c.store
    /\ UNCHANGED << nextFile, calls >>
    /\ SharedUnchanged

\* Time passes while downloads are served.
SharedTick ==
    /\ \E d \in SharedIds : downloads.of[d].pc # "done"
    /\ Tick

SharedNext ==
    \/ \E d \in SharedIds, fetchOk \in BOOLEAN : SharedSpawn(d, fetchOk)
    \/ \E d \in SharedIds, code \in ExitCodes, bot \in BOOLEAN : SharedClose(d, code, bot)
    \/ \E d \in SharedIds : SharedCancel(d)
    \/ SharedTick

SharedSpec == Init /\ [][SharedNext]_vars

\* ------------------------------------------ progress-store.ts under its callers
\* The partial snapshots callers pass to updateProgress: what the routes
\* write, and single fields.
StoreData ==
    ReportedData \cup
    { [progress |-> Pct(50), message |-> "Downloading...", phase |-> "downloading"],
      [completed |-> TRUE],
      [error |-> "Download failed"],
      [fileReady |-> TRUE, phase |-> "processing"] }

\* No call of the store was made yet.
NoStoreCall == [op |-> "none", id |-> NoId, data |-> [progress |-> 0]]

StoreUnchanged ==
    UNCHANGED << now, rateLimitMap, cookiesCache, disk, nextFile, history, nextRowId,
                 activeDownloads, req, procs, log, arrivals, stream, calls, notifier,
                 proxies, downloads >>

\* A caller runs updateProgress(id, data).
StoreUpdate(id, data) ==
    /\ downloadProgressStore' = updateProgress(downloadProgressStore, id, data)
    /\ probe' = [probe EXCEPT !.arg = [op |-> "update", id |-> id, data |-> data]]
    /\ StoreUnchanged

\* A caller runs clearProgress(id).
StoreClear(id) ==
    /\ downloadProgressStore' = clearProgress(downloadProgressStore, id)
    /\ probe' = [probe EXCEPT !.arg = [op |-> "clear", id |-> id, data |-> [progress |-> 0]]]
    /\ StoreUnchanged

StoreNext ==
    \/ \E id \in ProgressIds, data \in StoreData : StoreUpdate(id, data)
    \/ \E id \in ProgressIds : StoreClear(id)

StoreSpec == ProbeInit({NoStoreCall}) /\ [][StoreNext]_vars

\* --------------------------------------------- ytdlp.ts: the limiter's callers
\* No call of checkRateLimit was made yet; flip changes with every call.
NoLimiterCall == [op |-> "none", ip |-> "", verdict |-> TRUE, flip |-> FALSE]

\* A route handler runs checkRateLimit(ip).
CheckRateLimit(ip) ==
    /\ rateLimitMap' = rateLimitAfter(rateLimitMap, ip, now)
    /\ probe' = [probe EXCEPT !.arg = [op |-> "check", ip |-> ip,
                                       verdict |-> checkRateLimit(rateLimitMap, ip, now),
                                       flip |-> ~probe.arg.flip]]
    /\ UNCHANGED << now, cookiesCache, disk, nextFile, downloadProgressStore, history,
                    nextRowId, activeDownloads, req, procs, log, arrivals, stream, calls,
                    notifier, proxies, downloads >>

LimiterNext ==
    \/ Tick
    \/ RateCleanup
    \/ \E ip \in IPs : CheckRateLimit(ip)

LimiterSpec == ProbeInit({NoLimiterCall}) /\ [][LimiterNext]_vars

\* ===================================================================== claims
Done == req.pc = "done"

\* The snapshot of the request's correlation id.
HasSnapshot == req.clientDownloadId \in DOMAIN downloadProgressStore
Snapshot == downloadProgressStore[req.clientDownloadId]

\* The actual outcomes of the attempts made so far.
ActualOutcomes == [i \in DOMAIN log.runs |-> log.runs[i].actual]

\* C1: a request whose first extractor run emits only progress lines, exits
\* by itself with code 0 and leaves a valid file is answered with the media
\* response after that one attempt, and its snapshot ends at 100 / complete /
\* completed.
C1_SuccessAfterOneAttempt ==
    (/\ Len(log.runs) >= 1
     /\ log.runs[1].end = "exit"
     /\ log.runs[1].clean
     /\ log.runs[1].actual = "success")
    => /\ Done
       /\ req.response = "media"
       /\ log.spawns = 1
       /\ HasSnapshot
       /\ Snapshot.progress = Pct(100)
       /\ Snapshot.phase = "complete"
       /\ Snapshot.completed

\* C2: from one step to the next the progress stored for a correlation id
\* never decreases, as long as the snapshot written is not the terminal one
\* (completed, or carrying an error).
C2_StepMonotonic ==
    \A id \in DOMAIN downloadProgressStore :
        (/\ id \in DOMAIN downloadProgressStore'
         /\ downloadProgressStore[id].error = ""
         /\ ~downloadProgressStore[id].completed
         /\ downloadProgressStore'[id].error = ""
         /\ ~downloadProgressStore'[id].completed)
        => downloadProgressStore'[id].progress >= downloadProgressStore[id].progress

C2_ProgressNeverDecreases == [][C2_StepMonotonic]_vars

\* C3: no request spawns the extractor more than MAX_RETRIES times, and a
\* request all of whose attempts resolved as Timeout has spawned it exactly
\* MAX_RETRIES times when it returns, and returns the failure response.
C3_ThreeTimeouts ==
    /\ log.spawns <= MAX_RETRIES
    /\ (/\ Done
        /\ Len(log.runs) >= 1
        /\ \A i \in DOMAIN log.runs : log.runs[i].resolved = "timeout")
       => /\ log.spawns = MAX_RETRIES
          /\ Len(log.runs) = MAX_RETRIES
          /\ req.response = "500"

\* A request that returned after three attempts, each killed by a watchdog.
C3_Witness ==
    /\ Done
    /\ Len(log.runs) = MAX_RETRIES
    /\ \A i \in DOMAIN log.runs :
           /\ log.runs[i].end \in {"watchdog", "connect"}
           /\ log.runs[i].resolved = "timeout"
    /\ req.response = "500"

\* C4: when the first extractor run exits by itself with a non-zero code and
\* "video unavailable" diagnostics, the request returns the failure response
\* after that one spawn, without a second attempt.
C4_UnavailableNotRetried ==
    (/\ Len(log.runs) >= 1
     /\ log.runs[1].end = "exit"
     /\ log.runs[1].actual = "unavailable")
    => /\ Done
       /\ req.attempt = 1
       /\ log.spawns = 1
       /\ req.response = "500"

\* The resolution ceiling a format selector stands for (2160 when it has
\* none).
Quality(fmt) ==
    CASE fmt = "best[height<=360]" -> 360
      [] fmt = "best[height<=480]" -> 480
      [] fmt = "best[height<=720]" -> 720
      [] OTHER -> 2160

\* C5: after the outcomes Corruption, Corruption, Success the format of
\* attempt 3 is of lower or equal quality than that of attempt 1, and the
\* request is answered with the media response.
C5_LadderThenSuccess ==
    (/\ Len(log.runs) = 3
     /\ ActualOutcomes = << "corruption", "corruption", "success" >>)
    => /\ Quality(log.formats[3]) <= Quality(log.formats[1])
       /\ Done
       /\ req.response = "media"

\* C6: when attempt 1 ends bot-detected, getCachedCookies is called with
\* forceRefresh = true for attempt 2.
C6_RefreshAfterBot ==
    (/\ Len(log.runs) >= 1
     /\ log.runs[1].actual = "bot"
     /\ Len(log.acquires) >= 2)
    => log.acquires[2]

\* C7: once the response is returned, no temp file created during the
\* request (output or credential) exists.
C7_NoTempFileLeft == Done => log.created \cap disk = {}

\* The first request of the rate-limit window the i-th request of its client
\* falls into: a window starts with the client's first request and with each
\* request arriving more than RATE_WINDOW after the start of the current one.
RECURSIVE windowStart(_)
windowStart(i) ==
    IF i = 1 THEN 1
    ELSE LET s == windowStart(i - 1)
         IN  IF arrivals[i].t > arrivals[s].t + RATE_WINDOW THEN i ELSE s

\* C8: of the requests one client sends within one window the first
\* RATE_LIMIT pass the limiter and every further one is rejected ...
C8_Verdicts ==
    \A i \in DOMAIN arrivals : arrivals[i].ok <=> (i - windowStart(i) < RATE_LIMIT)

\* ... and the rejected request is answered 429 before an extractor is
\* spawned, a credential is fetched or a progress entry is written.
C8_RejectedEarly ==
    (req.pc = "idle" /\ req'.pc = "done" /\ ~arrivals'[Len(arrivals')].ok)
    => /\ req'.response = "429"
       /\ UNCHANGED << log, procs, activeDownloads, cookiesCache, disk, nextFile,
                       downloadProgressStore, history >>

C9_SuccessInHistory ==
    (Done /\ \E i \in DOMAIN log.runs : log.runs[i].actual = "success")
    => \E j \in DOMAIN getHistory(history, HISTORY_KEEP, 0) :
           LET row == getHistory(history, HISTORY_KEEP, 0)[j]
           IN  /\ row.success
               /\ row.url = req.url
               /\ row.format = req.requestedFormatId

\* C10: the history table never holds more than HISTORY_KEEP rows.
C10_AtMostKeep == Len(history) <= HISTORY_KEEP

\* The step is a getCachedCookies call made without forceRefresh.
AcquiresUnforced ==
    /\ calls'.seq = calls.seq + 1
    /\ ~calls'.last.forceRefresh

\* The cached bundle is returned as it is: no fetch, no change of the cache.
ReturnsCached ==
    /\ calls'.last.result = Bundle(calls.cache.content, calls.cache.tempPath, TRUE, FALSE)
    /\ calls'.inflight = calls.inflight
    /\ calls'.cache = calls.cache
    /\ disk' = disk

\* A cached bundle exists, is marked valid and is younger than the TTL.
BundleCached ==
    /\ calls.cache.content # ""
    /\ calls.cache.tempPath # NoFile
    /\ calls.cache.isValid
    /\ now - calls.cache.lastFetch < COOKIES_CACHE_TTL53

C16_NeverRaises == ~calls.last.result.raised

\* A call whose fetch failed returns a bundle with usedFallback = true whose
\* path is a fallback cookie file written by this very step.
C16_FallbackWritten ==
    (calls'.inflight = calls.inflight - 1 /\ ~calls'.last.fetchOk)
    => /\ calls'.last.kind = "done"
       /\ calls'.last.result.usedFallback
       /\ ~calls'.last.result.fromCache
       /\ calls'.last.result.tempPath.kind = "cookies_fallback"
       /\ calls'.last.result.tempPath \notin disk
       /\ calls'.last.result.tempPath \in disk'

\* C16: getCachedCookies never raises; when its fetch fails it returns a
\* bundle with usedFallback = true that points to a freshly written fallback
\* cookie file.
C16_FallbackNeverRaises == []C16_NeverRaises /\ [][C16_FallbackWritten]_vars

\* A call whose fetch failed has returned.
C16_Witness ==
    /\ calls.last.kind = "done"
    /\ ~calls.last.fetchOk
    /\ calls.last.result.usedFallback

\* C17: the first getCachedCookies call after invalidate() does not return
\* the cached bundle.
C17_FetchAfterInvalidate ==
    (calls.last.kind = "start" /\ calls.last.afterInvalidate)
    => ~calls.last.result.fromCache

\* C11: when the extractor of a streaming download fails by itself (non-zero
\* exit or spawn error), the client gets a success-range response with a
\* structured JSON error body, and the response stream is not errored.
C11_FailureIsJsonError ==
    (stream.exit \in {"failed", "spawn_error"} /\ ~stream.proc.killed)
    => /\ stream.response = "json_error"
       /\ stream.controller # "errored"

\* The step is the answer to a DELETE call.
DeleteAnswered == Len(stream'.deleteLog) = Len(stream.deleteLog) + 1

\* DELETE answers 200 exactly when the id is a key of activeDownloads; then
\* the process has been sent SIGTERM and the entry is gone; otherwise the
\* answer is 404 and nothing else changes.
C12_DeleteStep ==
    DeleteAnswered =>
        LET d == stream'.deleteLog[Len(stream'.deleteLog)]
            present == d.id \in DOMAIN stream.activeDownloads
        IN  /\ d.status = IF present THEN "200" ELSE "404"
            /\ present => /\ d.id \notin DOMAIN stream'.activeDownloads
                          /\ "SIGTERM" \in stream'.proc.signals
            /\ ~present => /\ stream' = [stream EXCEPT !.deleteLog = stream'.deleteLog]
                           /\ UNCHANGED << now, rateLimitMap, cookiesCache, disk, nextFile,
                                           downloadProgressStore, history, nextRowId,
                                           activeDownloads, req, procs, log, arrivals,
                                           calls, probe, notifier, proxies, downloads >>

\* A DELETE that follows a successful DELETE for the same id answers 404.
C12_SecondDeleteNotFound ==
    \A i, j \in DOMAIN stream.deleteLog :
        (i < j /\ stream.deleteLog[i].id = stream.deleteLog[j].id
               /\ stream.deleteLog[i].status = "200")
        => stream.deleteLog[j].status = "404"

\* C12: DELETE ?id=X answers {success:true} exactly when X is a key of the
\* active-downloads table; the process is then signalled and the entry
\* removed; otherwise it answers 404 and changes nothing; a second DELETE for
\* the same id answers 404.
C12_DeleteContract == []C12_SecondDeleteNotFound /\ [][C12_DeleteStep]_vars

\* A download was cancelled by DELETE and a second DELETE for it answered 404.
C12_Witness ==
    /\ stream.deleteLog = << [id |-> stream.downloadId, status |-> "200"],
                             [id |-> stream.downloadId, status |-> "404"] >>
    /\ "SIGTERM" \in stream.proc.signals

\* The download was cancelled through DELETE.
CancelledByDelete ==
    \E i \in DOMAIN stream.deleteLog : stream.deleteLog[i].status = "200"

\* C13: a download cancelled through DELETE has its extractor process
\* terminated eventually, also when the process ignores the termination
\* signal.
C13_CancelledProcessTerminates ==
    CancelledByDelete ~> (stream.proc.status # "running")

\* The client has disconnected: the stream was cancelled, or an enqueue failed.
Disconnected == stream.controller = "cancelled" \/ stream.enqueueFailed

\* C14: once the client of a streaming download has disconnected, the
\* extractor has been sent a kill signal, the keep-alive timer is cleared
\* and the request's entry is removed from the active-downloads table.
C14_DisconnectReleases ==
    Disconnected
    => /\ "SIGTERM" \in stream.proc.signals
       /\ ~stream.interval
       /\ stream.downloadId \notin DOMAIN stream.activeDownloads

\* The stream was cancelled and a later chunk could not be enqueued.
C14_Witness ==
    /\ stream.controller = "cancelled"
    /\ stream.enqueueFailed
    /\ "SIGTERM" \in stream.proc.signals
    /\ ~stream.interval

\* C20: a download's progress snapshots are written under the correlation id
\* the client supplied, and the X-Download-Id header echoes it; the server's
\* id is used only when the client supplied none (streaming route and
\* buffered route).
C20_ClientIdUsed ==
    /\ stream.pc \in {"cookies", "streaming"}
       => LET id == IF stream.clientDownloadId # NoId THEN stream.clientDownloadId
                    ELSE stream.downloadId
          IN  /\ DOMAIN downloadProgressStore \subseteq {id}
              /\ stream.response = "stream" => stream.header = id
    /\ req.pc \notin {"idle", "done"}
       => DOMAIN downloadProgressStore \subseteq {req.clientDownloadId}

\* C18: every entry of the format list returned for a single video has a
\* non-empty format identifier and at least one of hasVideo / hasAudio.
C18_FormatEntriesUsable ==
    probe.done
    => \A i \in DOMAIN probe.result :
           /\ probe.result[i].formatId \notin {"", Undefined}
           /\ probe.result[i].hasVideo \/ probe.result[i].hasAudio

\* A raw list of which one entry was kept and one dropped.
C18_Witness ==
    /\ probe.done
    /\ probe.arg.isArray
    /\ Len(probe.arg.formats) = 2
    /\ Len(probe.result) = Len(getCombinedFormats(<< >>)) + 1
    /\ \E i \in DOMAIN probe.arg.formats : probe.arg.formats[i].format_id = ""
    /\ \E i \in DOMAIN probe.arg.formats : probe.arg.formats[i].vcodec = Undefined

\* The string is the URL of a video or playlist of the supported site:
\* optional http(s) scheme and "www.", a supported host and path prefix,
\* and an identifier without white space.
IsVideoOrPlaylistUrl(u) ==
    /\ u.scheme \in {"", "https://", "http://"}
    /\ \/ /\ lowerCase(u.host) = "youtube.com"
          /\ u.path \in {"/watch?v=", "/embed/", "/v/", "/shorts/", "/playlist?list="}
       \/ /\ u.host = "youtu.be"
          /\ u.path = "/"
       \/ /\ u.host = "music.youtube.com"
          /\ u.path = "/watch?v="
    /\ u.tail = "dQw4w9WgXcQ"

\* C19: youtubeUrlSchema accepts the watch, youtu.be, shorts, playlist and
\* music watch URLs, with or without scheme and "www.", and rejects every
\* string that is not a video or playlist URL of the supported site.
C19_UrlSchemaExact ==
    probe.done => (probe.result <=> IsVideoOrPlaylistUrl(probe.arg))

\* ----------------------------------------------------------------- C21
ArgsOf(seq) == { seq[i] : i \in 1..Len(seq) }
CookieArgsOf(seq) == { a \in ArgsOf(seq) : a.flag = "--cookies" }

\* C21: no argument list built for the extractor carries credentials as a
\* header argument; the only argument that names a credential file is
\* --cookies <file>, and it is present exactly when a credential path was
\* supplied and that file exists when the arguments are built.
C21_CookiesOnlyAsFile ==
    probe.done =>
        LET args == ArgsOf(probe.result)
            supplied == probe.arg.cookiePath # NoFile /\ probe.arg.cookiePath \in probe.arg.files
        IN  /\ \A a \in args : a.flag = "--add-header" => a.header \notin {"Cookie", "cookie"}
            /\ \A a \in args : a.file # NoFile => a.flag = "--cookies"
            /\ (CookieArgsOf(probe.result) # {}) <=> supplied
            /\ \A a \in CookieArgsOf(probe.result) : a.file = probe.arg.cookiePath

\* A list built with a credential path whose file is gone, and one built with
\* a path whose file exists.
C21_Witness ==
    /\ probe.done
    /\ probe.arg.builder = "streamArgs"
    /\ probe.arg.cookiePath = File("cookie", 1)
    /\ probe.arg.files = {File("cookie", 1)}
    /\ CookieArgsOf(probe.result) = {CookiesArg(File("cookie", 1))}

\* ----------------------------------------------------------------- C22
\* C22: an attempt is classified Timeout only if a watchdog (the overall
\* timeout or the no-output connection timeout) fired; an extractor that
\* exited by itself is never Timeout: it is classified by its exit code, its
\* diagnostics and its output file.
C22_TimeoutOnlyByWatchdog ==
    \A i \in DOMAIN log.runs :
        log.runs[i].end = "exit" =>
            /\ log.runs[i].resolved # "timeout"
            /\ log.runs[i].resolved = log.runs[i].actual

\* ----------------------------------------------------------------- C23
\* C23: an attempt that follows a Corruption or a Timeout outcome runs with
\* the fallback format of the quality ladder (at most 720p on attempt 2, at
\* most 480p on attempt 3); an attempt that follows a bot-detection outcome
\* runs with the requested format and acquires credentials with a forced
\* refresh.
C23_FallbackOrRefresh ==
    \A i \in 2..Len(log.formats) :
        /\ log.runs[i - 1].actual \in {"corruption", "timeout"}
               => log.formats[i] = fallbackFormats[i - 1]
        /\ log.runs[i - 1].actual = "bot"
               => /\ log.formats[i] = req.requestedFormatId
                  /\ log.acquires[i]

\* ----------------------------------------------------------------- C24
\* C24: a bot-detected attempt is retried once, with a forced credential
\* refresh; when the retry is bot-detected again the request stops and
\* answers with the blocked error, so a request whose attempts are all
\* bot-detected spawns the extractor exactly twice.
C24_BotRetriedOnce ==
    /\ (/\ Len(log.runs) >= 2
        /\ \A i \in DOMAIN log.runs : log.runs[i].actual = "bot")
       => /\ Done
          /\ log.spawns = 2
          /\ log.acquires[2]
          /\ req.response = "403"
    /\ (/\ Len(log.runs) = 1
        /\ log.runs[1].actual = "bot")
       => ~Done

\* ----------------------------------------------------------------- C25
\* C25: every extractor started by the streaming route is guarded by a
\* watchdog: also when it neither produces output nor exits by itself, it
\* eventually stops running, or has at least been sent a termination signal.
C25_ExtractorEventuallyEnds ==
    (stream.pc = "streaming" /\ stream.proc.status = "running")
        ~> (stream.proc.status # "running" \/ stream.proc.signals # {})

Finished(id) ==
    /\ id \in DOMAIN downloadProgressStore
    /\ downloadProgressStore[id].completed \/ truthy(downloadProgressStore[id].error)

\* C27: a snapshot whose completed flag or error has become true is
\* eventually deleted from the store, also when no progress channel is
\* polling its correlation id.
C27_FinishedSnapshotDeleted ==
    (Finished(ClientId) /\ notifier.id # ClientId)
        ~> (ClientId \notin DOMAIN downloadProgressStore)

\* ----------------------------------------------------------------- C28
\* The channel's stream has been ended by the client.
ClientGone == notifier.aborted \/ notifier.controller = "cancelled"

\* The first frame of an open channel is 'connecting'; at most one timeout
\* message is ever sent; a channel polls only while it is active.
C28_ChannelState ==
    /\ notifier.pc = "open" => notifier.frames >= 1 /\ notifier.first = "connecting"
    /\ notifier.timeouts <= 1
    /\ notifier.timeouts = 1 => notifier.controller = "closed" /\ ~notifier.interval
    /\ notifier.interval => notifier.isActive /\ ~notifier.aborted /\ notifier.capTimer
    /\ notifier.aborted => ~notifier.interval /\ notifier.controller # "readable"

\* One step of the channel: a polling callback of a readable channel sends
\* exactly one frame, the stored snapshot or a heartbeat; no frame is sent
\* once the client is gone; the polling stops only on a disconnect or at the
\* cap; the cap sends the timeout message, once, and closes.
C28_ChannelStep ==
    /\ notifier'.polls = notifier.polls + 1 /\ notifier.controller = "readable"
           => /\ notifier'.frames = notifier.frames + 1
              /\ notifier'.last = IF notifier.id \in DOMAIN downloadProgressStore
                                  THEN "snapshot" ELSE "heartbeat"
    /\ notifier'.frames # notifier.frames
           => /\ notifier'.frames = notifier.frames + 1
              /\ ~ClientGone
    /\ notifier.interval /\ ~notifier'.interval
           => \/ ClientGone'
              \/ notifier.capTimer /\ ~notifier'.capTimer
    /\ notifier.capTimer /\ ~notifier'.capTimer /\ notifier.controller = "readable"
           => /\ notifier'.timeouts = 1
              /\ notifier'.last = "timeout"
              /\ notifier'.frames = notifier.frames + 1
              /\ notifier'.controller = "closed"

\* C28: a progress channel sends 'connecting' first and then one frame per
\* polling interval (the stored snapshot, or a heartbeat when there is none);
\* it ends only by the client's disconnect, after which no frame is sent and
\* the polling stops, or by the absolute cap, at which it sends exactly one
\* timeout message and closes.
C28_ChannelContract == []C28_ChannelState /\ [][C28_ChannelStep]_vars

\* A channel that sent snapshots and heartbeats and was then ended by the cap.
C28_Witness ==
    /\ notifier.polls >= 2
    /\ notifier.frames = notifier.polls + 2
    /\ notifier.timeouts = 1
    /\ notifier.controller = "closed"
    /\ ~notifier.aborted

\* ----------------------------------------------------------------- C29
\* The requests of the client accepted in the interval of window length
\* that starts at time t.
AcceptedFrom(t) ==
    { j \in DOMAIN arrivals :
          /\ arrivals[j].ok
          /\ arrivals[j].t >= t
          /\ arrivals[j].t < t + RATE_WINDOW }

\* C29: the limit is a rolling-window limit: in every interval as long as the
\* window, at most RATE_LIMIT requests of one client are accepted.
C29_RollingWindow ==
    \A i \in DOMAIN arrivals : Cardinality(AcceptedFrom(arrivals[i].t)) <= RATE_LIMIT

\* ----------------------------------------------------------------- C30
\* The step receives a download request that passed the rate limit and whose
\* URL is not of the supported site (BadUrl) or is malformed (MalformedUrl).
ReceivesInvalidUrl ==
    /\ stream.pc = "idle"
    /\ stream'.pc # "idle"
    /\ stream'.url \in {BadUrl, MalformedUrl}
    /\ stream'.response # "429"

\* C30: a download request whose URL is malformed or not of the supported
\* site is answered 400, and for it no extractor is spawned, no credential
\* is acquired, no progress snapshot is created and no history entry is
\* written.
C30_InvalidUrlRejected ==
    [][ReceivesInvalidUrl =>
           /\ stream'.pc = "done"
           /\ stream'.response = "400"
           /\ UNCHANGED << downloadProgressStore, history, calls, disk >>]_vars

\* ----------------------------------------------------------------- C31
\* C31: when the insert of the history row fails after the extractor has
\* exited with code 0, the failure is swallowed: the handler has reported
\* 100 / complete, the response body is closed normally (unless the client
\* had gone before), the download is cleaned up and nothing is thrown.
C31_HistoryFailureSwallowed ==
    (stream.historyFailed /\ stream.exit = "ok")
    => /\ stream.response = "stream"
       /\ stream.reported = "complete"
       /\ Len(history) = 0
       /\ stream.controller # "errored"
       /\ stream.controller # "cancelled"
              => /\ stream.controller = "closed"
                 /\ ~stream.uncaught
                 /\ stream.downloadId \notin DOMAIN stream.activeDownloads

\* A download that streamed data, whose extractor exited with code 0 and
\* whose history row could not be written.
C31_Witness ==
    /\ stream.historyFailed
    /\ stream.exit = "ok"
    /\ stream.responseStarted
    /\ stream.controller = "closed"
    /\ Len(history) = 0

\* ----------------------------------------------------------------- C32
ElementsOf(seq) == { seq[i] : i \in DOMAIN seq }

\* The extractor's arguments for a pick hold --proxy exactly when a proxy
\* was picked.
ProxyArgFollowsPick(picked) ==
    (Arg("--proxy") \in ArgsOf(streamArgs(NoFile, {}, picked # NoProxy, FALSE)))
        <=> picked # NoProxy

\* C32: when the list the admin configured is empty (an empty list was set,
\* or the last proxy was removed), getRandomProxy returns no proxy and the
\* extractor gets no --proxy argument; when the list is not empty it
\* returns one of its elements.
C32_PickFromConfigured ==
    [][proxies'.op = "pick"
       => /\ ProxyArgFollowsPick(proxies'.picked)
          /\ proxies.list # << >> => proxies'.picked \in ElementsOf(proxies.list)
          /\ (proxies.list = << >> /\ proxies.byAdmin) => proxies'.picked = NoProxy]_vars


\* ----------------------------------------------------------------- C33
\* The temp files getCachedCookies wrote that are still on disk.
CacheOwnedFiles == { f \in disk : f.kind \in {"cookies", "cookies_fallback"} }

\* C33: whatever sequence of getCachedCookies calls has run (successful
\* fetches and fallbacks in any order), at most one credential temp file
\* written by the cache is on disk, because every refresh deletes the file
\* cached before.
C33_OneCacheFile == Cardinality(CacheOwnedFiles) <= 1


\* ----------------------------------------------------------------- C34
\* C34: in the streaming route a response body that ended normally (the
\* stream was closed, not errored) belongs to an extractor that exited with
\* code 0; a download that failed after bytes were sent is never closed as
\* a complete body.
C34_NormalEndMeansExitZero == stream.controller = "closed" => stream.exit = "ok"


\* ----------------------------------------------------------------- C35
\* Download d's extractor runs on a cookie file that is on disk, and the
\* download is still entered in the table.
RunsOnCookieFile(d) ==
    /\ downloads.of[d].proc.status = "running"
    /\ downloads.of[d].cookies # NoFile
    /\ downloads.of[d].cookies \in disk
    /\ d \in DOMAIN downloads.table

\* C35: in every interleaving of downloads that share the credential
\* cache, no step of another download (its cleanup, or the cache refresh of
\* its getCachedCookies call) deletes the cookie file that a still running
\* extractor was started with.
C35_CookieFileOutlivesExtractor ==
    [][\A d \in SharedIds :
           (RunsOnCookieFile(d) /\ downloads'.of[d] = downloads.of[d]
               /\ d \in DOMAIN downloads'.table)
               => downloads.of[d].cookies \in disk']_vars


\* ----------------------------------------------------------------- C36
\* The extractor of attempt k has not exited yet.
Alive(k) == procs[k].status \in {"running", "killed"}

\* C36: in the buffered route, while an extractor spawned for the request
\* runs, the active-downloads table holds the request's entry and the entry
\* refers to that process (no handler of an earlier attempt removes the
\* entry of a newer one), and at most one extractor of the request is
\* alive.
C36_RunningProcessIsTracked ==
    /\ \A k \in DOMAIN procs :
           procs[k].status = "running" =>
               /\ req.downloadId \in DOMAIN activeDownloads
               /\ activeDownloads[req.downloadId].tempFile = procs[k].tempFile
    /\ Cardinality({ k \in DOMAIN procs : Alive(k) }) <= 1


\* ----------------------------------------------------------------- C37
\* C37: whenever getCachedCookies returns the synthesized fallback payload,
\* the bundle's usedFallback flag is true, also when the fallback bundle is
\* served from the cache by a later call.
C37_FallbackIsFlagged ==
    calls.last.result.content = "fallback" => calls.last.result.usedFallback


\* ----------------------------------------------------------------- C38
\* The snapshot of id is in a terminal state: 'complete' with the completed
\* flag, or 'error' with an error text.
TerminalSnapshot(id) ==
    /\ id \in DOMAIN downloadProgressStore
    /\ \/ /\ downloadProgressStore[id].phase = "complete"
          /\ downloadProgressStore[id].completed
       \/ /\ downloadProgressStore[id].phase = "error"
          /\ truthy(downloadProgressStore[id].error)

\* C38: a download request that has written a progress snapshot eventually
\* leaves the snapshot of its correlation id in a terminal state, on every
\* exit path, the normal completion of a streamed download included.
C38_SnapshotEndsTerminal ==
    (stream.reported # "none") ~> TerminalSnapshot(stream.progressId)


\* ----------------------------------------------------------------- C39
\* The values the claim names for an entry that did not exist.
InitialisedTo ==
    [progress |-> 0, phase |-> "preparing", completed |-> FALSE, fileReady |-> FALSE]

\* The step was updateProgress(id, data): the store holds the old ids and
\* id, every other entry is as before, and in the entry of id the fields
\* of data have data's values and the others their old ones, or those of a
\* fresh entry.
UpdateFrame(id, data) ==
    /\ DOMAIN downloadProgressStore' = DOMAIN downloadProgressStore \cup {id}
    /\ \A k \in DOMAIN downloadProgressStore \ {id} :
           downloadProgressStore'[k] = downloadProgressStore[k]
    /\ \A f \in SnapshotFields :
           IF f \in DOMAIN data
           THEN downloadProgressStore'[id][f] = data[f]
           ELSE IF id \in DOMAIN downloadProgressStore
           THEN downloadProgressStore'[id][f] = downloadProgressStore[id][f]
           ELSE f \in DOMAIN InitialisedTo =>
                    downloadProgressStore'[id][f] = InitialisedTo[f]

\* The step was clearProgress(id): only the entry of id is gone.
ClearFrame(id) ==
    /\ DOMAIN downloadProgressStore' = DOMAIN downloadProgressStore \ {id}
    /\ \A k \in DOMAIN downloadProgressStore' :
           downloadProgressStore'[k] = downloadProgressStore[k]

\* C39: updateProgress(id, data) changes only the entry of id and in it
\* only the fields present in data (an absent entry starts from progress 0,
\* phase 'preparing', completed = false, fileReady = false); clearProgress(id)
\* removes only the entry of id; both leave all other entries unchanged.
C39_StoreFrame ==
    [][/\ probe'.arg.op = "update" => UpdateFrame(probe'.arg.id, probe'.arg.data)
       /\ probe'.arg.op = "clear" => ClearFrame(probe'.arg.id)]_vars

\* updateProgress has set one field of an entry that kept its phase from an
\* earlier call, while the store held the entry of another id.
C39_Witness ==
    /\ probe.arg.op = "update"
    /\ probe.arg.data = [completed |-> TRUE]
    /\ probe.arg.id = ClientId
    /\ downloadProgressStore[ClientId].phase = "downloading"
    /\ downloadProgressStore[ClientId].completed
    /\ ServerId(1) \in DOMAIN downloadProgressStore
    /\ downloadProgressStore[ServerId(1)].phase = "error"


\* ----------------------------------------------------------------- C40
\* C40: a call of checkRateLimit that rejects leaves the client's counter
\* and reset time unchanged; the first call of a client after its reset
\* time is accepted and starts a new window with count 1; and a call for
\* one IP changes the record of no other IP.
C40_LimiterFrame ==
    [][probe'.arg.flip # probe.arg.flip =>
           LET ip == probe'.arg.ip
               accepted == probe'.arg.verdict
           IN  /\ \A k \in IPs \ {ip} :
                      /\ k \in DOMAIN rateLimitMap' <=> k \in DOMAIN rateLimitMap
                      /\ k \in DOMAIN rateLimitMap => rateLimitMap'[k] = rateLimitMap[k]
               /\ ~accepted =>
                      /\ ip \in DOMAIN rateLimitMap'
                      /\ rateLimitMap'[ip] = rateLimitMap[ip]
               /\ (ip \in DOMAIN rateLimitMap /\ now > rateLimitMap[ip].resetTime) =>
                      /\ accepted
                      /\ rateLimitMap'[ip] = [count |-> 1, resetTime |-> now + RATE_WINDOW]]_vars

\* A client was rejected in a window that began after its first one had
\* ended, while another client's record was in the table.
C40_Witness ==
    /\ probe.arg.op = "check"
    /\ ~probe.arg.verdict
    /\ probe.arg.ip = "ip1"
    /\ rateLimitMap["ip1"].count = RATE_LIMIT
    /\ rateLimitMap["ip1"].resetTime > RATE_WINDOW
    /\ "ip2" \in DOMAIN rateLimitMap

====
